---------------------------- MODULE Spec2Model ----------------------------
(***************************************************************************)
(* A model of frontend/src/App.jsx of result-scraper: the routes of App,   *)
(* the API Health page (health check), the Analyze Results page (request   *)
(* lifecycle), the All Students table (search filter, sort, competition    *)
(* ranking, tier colouring) and the SGPA distribution chart.               *)
(*                                                                         *)
(* Representation.                                                         *)
(*  - A JavaScript string is a sequence of UTF-16 code units (naturals).   *)
(*  - An sgpa is a record [tag, val]: tag "number" carries the score in    *)
(*    thousandths (9.5 is 9500); tag "string" is a score that fails        *)
(*    numeric coercion (Number(sgpa) is NaN).                              *)
(*  - A nullable React state (data, error) is a sequence: <<>> is null,    *)
(*    <<x>> is the value x.                                                *)
(*  - A bar width is the exact fraction <<num, den>> (num/den percent).    *)
(***************************************************************************)
EXTENDS Integers, Sequences, FiniteSets

VARIABLES
    root,         \* App is mounted: true until a render throws
    location,     \* App: the pathname of useLocation(), the route shown
    health,       \* HealthPage: its useState hooks status, loading, error
    checks,       \* fetchHealth invocations suspended at an await
    loading,      \* AnalyzeResultsPage: useState(false)
    error,        \* AnalyzeResultsPage: useState(null)
    data,         \* AnalyzeResultsPage: useState(null)
    pending,      \* handleSubmit invocations suspended at an await
    sortBy,       \* AllStudentsTable: useState('sgpa')
    sortOrder,    \* AllStudentsTable: useState('desc')
    searchTerm,   \* AllStudentsTable: useState('')
    view,         \* what the last render of AnalyzeResultsPage showed
    event,        \* the last DOM event or promise settlement dispatched
    distribution, \* DistributionChart: the prop of a stand-alone render
    bars,         \* DistributionChart: the bars of that render
    sgpaArg,      \* getSGPAColor: the argument of a stand-alone call
    sgpaColor     \* getSGPAColor: the result of that call

vars == <<root, location, health, checks, loading, error, data, pending,
          sortBy, sortOrder, searchTerm, view, event, distribution, bars,
          sgpaArg, sgpaColor>>

----------------------------------------------------------------------------
(* Bounds of the model.                                                    *)

MaxStudents == 3      \* longest record list of SpecTable
MaxBuckets == 3       \* most buckets of a distribution of SpecChart
MaxCount == 4         \* bucket counts of SpecChart: 0..MaxCount
LargeCount == 100     \* and one large bucket count
TierLo == 5900        \* lowest score (thousandths) of SpecTier
TierHi == 9100        \* highest score (thousandths) of SpecTier
MaxInFlight == 2      \* cap on suspended invocations of a handler

----------------------------------------------------------------------------
(* JavaScript strings.                                                     *)

\* String.prototype.toLowerCase, on strings as sequences of UTF-16 code
\* units. The string is read as code points, every code point is replaced by
\* its lower-case mapping of the Unicode Character Database (Unicode 17),
\* and the result is written as code units again. Two mappings depend on
\* more than the code point: U+0130 becomes the two code points U+0069
\* U+0307, and U+03A3 becomes U+03C2 at the end of a word (Final_Sigma) and
\* U+03C3 elsewhere.

\* A high surrogate followed by a low surrogate is one code point; any
\* other code unit is a code point of its own.
RECURSIVE CodePoints(_)
CodePoints(s) ==
    IF s = <<>> THEN <<>>
    ELSE IF Len(s) >= 2 /\ s[1] \in 55296..56319 /\ s[2] \in 56320..57343
    THEN <<65536 + (s[1] - 55296) * 1024 + (s[2] - 56320)>>
             \o CodePoints(SubSeq(s, 3, Len(s)))
    ELSE <<s[1]>> \o CodePoints(Tail(s))

CodeUnits(cp) ==
    IF cp < 65536 THEN <<cp>>
    ELSE <<55296 + ((cp - 65536) \div 1024), 56320 + ((cp - 65536) % 1024)>>

\* The simple lower-case mappings, by block of code points first..last:
\* <<from, to, step, delta>> maps the code points from, from + step, ..., to
\* to themselves plus delta.
LowerCaseMapping ==
    { [first |-> 0, last |-> 127, rules |->
        { <<65, 90, 1, 32>> }],
     [first |-> 128, last |-> 255, rules |->
        { <<192, 214, 1, 32>>, <<216, 222, 1, 32>> }],
     [first |-> 256, last |-> 383, rules |->
        { <<256, 302, 2, 1>>, <<306, 310, 2, 1>>, <<313, 327, 2, 1>>,
          <<330, 374, 2, 1>>, <<376, 376, 1, -121>>, <<377, 381, 2, 1>> }],
     [first |-> 384, last |-> 591, rules |->
        { <<385, 385, 1, 210>>, <<386, 388, 2, 1>>, <<390, 390, 1, 206>>,
          <<391, 391, 1, 1>>, <<393, 394, 1, 205>>, <<395, 395, 1, 1>>,
          <<398, 398, 1, 79>>, <<399, 399, 1, 202>>, <<400, 400, 1, 203>>,
          <<401, 401, 1, 1>>, <<403, 403, 1, 205>>, <<404, 404, 1, 207>>,
          <<406, 406, 1, 211>>, <<407, 407, 1, 209>>, <<408, 408, 1, 1>>,
          <<412, 412, 1, 211>>, <<413, 413, 1, 213>>, <<415, 415, 1, 214>>,
          <<416, 420, 2, 1>>, <<422, 422, 1, 218>>, <<423, 423, 1, 1>>,
          <<425, 425, 1, 218>>, <<428, 428, 1, 1>>, <<430, 430, 1, 218>>,
          <<431, 431, 1, 1>>, <<433, 434, 1, 217>>, <<435, 437, 2, 1>>,
          <<439, 439, 1, 219>>, <<440, 440, 1, 1>>, <<444, 444, 1, 1>>,
          <<452, 452, 1, 2>>, <<453, 453, 1, 1>>, <<455, 455, 1, 2>>,
          <<456, 456, 1, 1>>, <<458, 458, 1, 2>>, <<459, 475, 2, 1>>,
          <<478, 494, 2, 1>>, <<497, 497, 1, 2>>, <<498, 500, 2, 1>>,
          <<502, 502, 1, -97>>, <<503, 503, 1, -56>>, <<504, 542, 2, 1>>,
          <<544, 544, 1, -130>>, <<546, 562, 2, 1>>, <<570, 570, 1, 10795>>,
          <<571, 571, 1, 1>>, <<573, 573, 1, -163>>, <<574, 574, 1, 10792>>,
          <<577, 577, 1, 1>>, <<579, 579, 1, -195>>, <<580, 580, 1, 69>>,
          <<581, 581, 1, 71>>, <<582, 590, 2, 1>> }],
     [first |-> 592, last |-> 1023, rules |->
        { <<880, 882, 2, 1>>, <<886, 886, 1, 1>>, <<895, 895, 1, 116>>,
          <<902, 902, 1, 38>>, <<904, 906, 1, 37>>, <<908, 908, 1, 64>>,
          <<910, 911, 1, 63>>, <<913, 929, 1, 32>>, <<931, 939, 1, 32>>,
          <<975, 975, 1, 8>>, <<984, 1006, 2, 1>>, <<1012, 1012, 1, -60>>,
          <<1015, 1015, 1, 1>>, <<1017, 1017, 1, -7>>, <<1018, 1018, 1, 1>>,
          <<1021, 1023, 1, -130>> }],
     [first |-> 1024, last |-> 1327, rules |->
        { <<1024, 1039, 1, 80>>, <<1040, 1071, 1, 32>>, <<1120, 1152, 2, 1>>,
          <<1162, 1214, 2, 1>>, <<1216, 1216, 1, 15>>, <<1217, 1229, 2, 1>>,
          <<1232, 1326, 2, 1>> }],
     [first |-> 1328, last |-> 7679, rules |->
        { <<1329, 1366, 1, 48>>, <<4256, 4293, 1, 7264>>,
          <<4295, 4295, 1, 7264>>, <<4301, 4301, 1, 7264>>,
          <<5024, 5103, 1, 38864>>, <<5104, 5109, 1, 8>>,
          <<7305, 7305, 1, 1>>, <<7312, 7354, 1, -3008>>,
          <<7357, 7359, 1, -3008>> }],
     [first |-> 7680, last |-> 7935, rules |->
        { <<7680, 7828, 2, 1>>, <<7838, 7838, 1, -7615>>,
          <<7840, 7934, 2, 1>> }],
     [first |-> 7936, last |-> 8191, rules |->
        { <<7944, 7951, 1, -8>>, <<7960, 7965, 1, -8>>, <<7976, 7983, 1, -8>>,
          <<7992, 7999, 1, -8>>, <<8008, 8013, 1, -8>>, <<8025, 8031, 2, -8>>,
          <<8040, 8047, 1, -8>>, <<8072, 8079, 1, -8>>, <<8088, 8095, 1, -8>>,
          <<8104, 8111, 1, -8>>, <<8120, 8121, 1, -8>>,
          <<8122, 8123, 1, -74>>, <<8124, 8124, 1, -9>>,
          <<8136, 8139, 1, -86>>, <<8140, 8140, 1, -9>>,
          <<8152, 8153, 1, -8>>, <<8154, 8155, 1, -100>>,
          <<8168, 8169, 1, -8>>, <<8170, 8171, 1, -112>>,
          <<8172, 8172, 1, -7>>, <<8184, 8185, 1, -128>>,
          <<8186, 8187, 1, -126>>, <<8188, 8188, 1, -9>> }],
     [first |-> 8192, last |-> 11263, rules |->
        { <<8486, 8486, 1, -7517>>, <<8490, 8490, 1, -8383>>,
          <<8491, 8491, 1, -8262>>, <<8498, 8498, 1, 28>>,
          <<8544, 8559, 1, 16>>, <<8579, 8579, 1, 1>>,
          <<9398, 9423, 1, 26>> }],
     [first |-> 11264, last |-> 42559, rules |->
        { <<11264, 11311, 1, 48>>, <<11360, 11360, 1, 1>>,
          <<11362, 11362, 1, -10743>>, <<11363, 11363, 1, -3814>>,
          <<11364, 11364, 1, -10727>>, <<11367, 11371, 2, 1>>,
          <<11373, 11373, 1, -10780>>, <<11374, 11374, 1, -10749>>,
          <<11375, 11375, 1, -10783>>, <<11376, 11376, 1, -10782>>,
          <<11378, 11378, 1, 1>>, <<11381, 11381, 1, 1>>,
          <<11390, 11391, 1, -10815>>, <<11392, 11490, 2, 1>>,
          <<11499, 11501, 2, 1>>, <<11506, 11506, 1, 1>> }],
     [first |-> 42560, last |-> 65535, rules |->
        { <<42560, 42604, 2, 1>>, <<42624, 42650, 2, 1>>,
          <<42786, 42798, 2, 1>>, <<42802, 42862, 2, 1>>,
          <<42873, 42875, 2, 1>>, <<42877, 42877, 1, -35332>>,
          <<42878, 42886, 2, 1>>, <<42891, 42891, 1, 1>>,
          <<42893, 42893, 1, -42280>>, <<42896, 42898, 2, 1>>,
          <<42902, 42920, 2, 1>>, <<42922, 42922, 1, -42308>>,
          <<42923, 42923, 1, -42319>>, <<42924, 42924, 1, -42315>>,
          <<42925, 42925, 1, -42305>>, <<42926, 42926, 1, -42308>>,
          <<42928, 42928, 1, -42258>>, <<42929, 42929, 1, -42282>>,
          <<42930, 42930, 1, -42261>>, <<42931, 42931, 1, 928>>,
          <<42932, 42946, 2, 1>>, <<42948, 42948, 1, -48>>,
          <<42949, 42949, 1, -42307>>, <<42950, 42950, 1, -35384>>,
          <<42951, 42953, 2, 1>>, <<42955, 42955, 1, -42343>>,
          <<42956, 42970, 2, 1>>, <<42972, 42972, 1, -42561>>,
          <<42997, 42997, 1, 1>>, <<65313, 65338, 1, 32>> }],
     [first |-> 65536, last |-> 1114111, rules |->
        { <<66560, 66599, 1, 40>>, <<66736, 66771, 1, 40>>,
          <<66928, 66938, 1, 39>>, <<66940, 66954, 1, 39>>,
          <<66956, 66962, 1, 39>>, <<66964, 66965, 1, 39>>,
          <<68736, 68786, 1, 64>>, <<68944, 68965, 1, 32>>,
          <<71840, 71871, 1, 32>>, <<93760, 93791, 1, 32>>,
          <<93856, 93880, 1, 27>>, <<125184, 125217, 1, 34>> }] }

\* The ranges of the cased letters that are not case-ignorable.
Cased ==
    { <<65, 90>>, <<97, 122>>, <<170, 170>>, <<181, 181>>, <<186, 186>>,
      <<192, 214>>, <<216, 246>>, <<248, 442>>, <<444, 447>>, <<452, 659>>,
      <<662, 687>>, <<880, 883>>, <<886, 887>>, <<891, 893>>, <<895, 895>>,
      <<902, 902>>, <<904, 906>>, <<908, 908>>, <<910, 929>>, <<931, 1013>>,
      <<1015, 1153>>, <<1162, 1327>>, <<1329, 1366>>, <<1376, 1416>>,
      <<4256, 4293>>, <<4295, 4295>>, <<4301, 4301>>, <<4304, 4346>>,
      <<4349, 4351>>, <<5024, 5109>>, <<5112, 5117>>, <<7296, 7306>>,
      <<7312, 7354>>, <<7357, 7359>>, <<7424, 7467>>, <<7531, 7543>>,
      <<7545, 7578>>, <<7680, 7957>>, <<7960, 7965>>, <<7968, 8005>>,
      <<8008, 8013>>, <<8016, 8023>>, <<8025, 8025>>, <<8027, 8027>>,
      <<8029, 8029>>, <<8031, 8061>>, <<8064, 8116>>, <<8118, 8124>>,
      <<8126, 8126>>, <<8130, 8132>>, <<8134, 8140>>, <<8144, 8147>>,
      <<8150, 8155>>, <<8160, 8172>>, <<8178, 8180>>, <<8182, 8188>>,
      <<8450, 8450>>, <<8455, 8455>>, <<8458, 8467>>, <<8469, 8469>>,
      <<8473, 8477>>, <<8484, 8484>>, <<8486, 8486>>, <<8488, 8488>>,
      <<8490, 8493>>, <<8495, 8500>>, <<8505, 8505>>, <<8508, 8511>>,
      <<8517, 8521>>, <<8526, 8526>>, <<8544, 8575>>, <<8579, 8580>>,
      <<9398, 9449>>, <<11264, 11387>>, <<11390, 11492>>, <<11499, 11502>>,
      <<11506, 11507>>, <<11520, 11557>>, <<11559, 11559>>, <<11565, 11565>>,
      <<42560, 42605>>, <<42624, 42651>>, <<42786, 42863>>, <<42865, 42887>>,
      <<42891, 42894>>, <<42896, 42972>>, <<42997, 42998>>, <<43002, 43002>>,
      <<43824, 43866>>, <<43872, 43880>>, <<43888, 43967>>, <<64256, 64262>>,
      <<64275, 64279>>, <<65313, 65338>>, <<65345, 65370>>, <<66560, 66639>>,
      <<66736, 66771>>, <<66776, 66811>>, <<66928, 66938>>, <<66940, 66954>>,
      <<66956, 66962>>, <<66964, 66965>>, <<66967, 66977>>, <<66979, 66993>>,
      <<66995, 67001>>, <<67003, 67004>>, <<68736, 68786>>, <<68800, 68850>>,
      <<68944, 68965>>, <<68976, 68997>>, <<71840, 71903>>, <<93760, 93823>>,
      <<93856, 93880>>, <<93883, 93907>>, <<119808, 119892>>,
      <<119894, 119964>>, <<119966, 119967>>, <<119970, 119970>>,
      <<119973, 119974>>, <<119977, 119980>>, <<119982, 119993>>,
      <<119995, 119995>>, <<119997, 120003>>, <<120005, 120069>>,
      <<120071, 120074>>, <<120077, 120084>>, <<120086, 120092>>,
      <<120094, 120121>>, <<120123, 120126>>, <<120128, 120132>>,
      <<120134, 120134>>, <<120138, 120144>>, <<120146, 120485>>,
      <<120488, 120512>>, <<120514, 120538>>, <<120540, 120570>>,
      <<120572, 120596>>, <<120598, 120628>>, <<120630, 120654>>,
      <<120656, 120686>>, <<120688, 120712>>, <<120714, 120744>>,
      <<120746, 120770>>, <<120772, 120779>>, <<122624, 122633>>,
      <<122635, 122654>>, <<122661, 122666>>, <<125184, 125251>>,
      <<127280, 127305>>, <<127312, 127337>>, <<127344, 127369>> }

\* The ranges of the case-ignorable characters.
CaseIgnorable ==
    { <<39, 39>>, <<46, 46>>, <<58, 58>>, <<94, 94>>, <<96, 96>>,
      <<168, 168>>, <<173, 173>>, <<175, 175>>, <<180, 180>>, <<183, 184>>,
      <<688, 879>>, <<884, 885>>, <<890, 890>>, <<900, 901>>, <<903, 903>>,
      <<1155, 1161>>, <<1369, 1369>>, <<1375, 1375>>, <<1425, 1469>>,
      <<1471, 1471>>, <<1473, 1474>>, <<1476, 1477>>, <<1479, 1479>>,
      <<1524, 1524>>, <<1536, 1541>>, <<1552, 1562>>, <<1564, 1564>>,
      <<1600, 1600>>, <<1611, 1631>>, <<1648, 1648>>, <<1750, 1757>>,
      <<1759, 1768>>, <<1770, 1773>>, <<1807, 1807>>, <<1809, 1809>>,
      <<1840, 1866>>, <<1958, 1968>>, <<2027, 2037>>, <<2042, 2042>>,
      <<2045, 2045>>, <<2070, 2093>>, <<2137, 2139>>, <<2184, 2184>>,
      <<2192, 2193>>, <<2199, 2207>>, <<2249, 2306>>, <<2362, 2362>>,
      <<2364, 2364>>, <<2369, 2376>>, <<2381, 2381>>, <<2385, 2391>>,
      <<2402, 2403>>, <<2417, 2417>>, <<2433, 2433>>, <<2492, 2492>>,
      <<2497, 2500>>, <<2509, 2509>>, <<2530, 2531>>, <<2558, 2558>>,
      <<2561, 2562>>, <<2620, 2620>>, <<2625, 2626>>, <<2631, 2632>>,
      <<2635, 2637>>, <<2641, 2641>>, <<2672, 2673>>, <<2677, 2677>>,
      <<2689, 2690>>, <<2748, 2748>>, <<2753, 2757>>, <<2759, 2760>>,
      <<2765, 2765>>, <<2786, 2787>>, <<2810, 2815>>, <<2817, 2817>>,
      <<2876, 2876>>, <<2879, 2879>>, <<2881, 2884>>, <<2893, 2893>>,
      <<2901, 2902>>, <<2914, 2915>>, <<2946, 2946>>, <<3008, 3008>>,
      <<3021, 3021>>, <<3072, 3072>>, <<3076, 3076>>, <<3132, 3132>>,
      <<3134, 3136>>, <<3142, 3144>>, <<3146, 3149>>, <<3157, 3158>>,
      <<3170, 3171>>, <<3201, 3201>>, <<3260, 3260>>, <<3263, 3263>>,
      <<3270, 3270>>, <<3276, 3277>>, <<3298, 3299>>, <<3328, 3329>>,
      <<3387, 3388>>, <<3393, 3396>>, <<3405, 3405>>, <<3426, 3427>>,
      <<3457, 3457>>, <<3530, 3530>>, <<3538, 3540>>, <<3542, 3542>>,
      <<3633, 3633>>, <<3636, 3642>>, <<3654, 3662>>, <<3761, 3761>>,
      <<3764, 3772>>, <<3782, 3782>>, <<3784, 3790>>, <<3864, 3865>>,
      <<3893, 3893>>, <<3895, 3895>>, <<3897, 3897>>, <<3953, 3966>>,
      <<3968, 3972>>, <<3974, 3975>>, <<3981, 3991>>, <<3993, 4028>>,
      <<4038, 4038>>, <<4141, 4144>>, <<4146, 4151>>, <<4153, 4154>>,
      <<4157, 4158>>, <<4184, 4185>>, <<4190, 4192>>, <<4209, 4212>>,
      <<4226, 4226>>, <<4229, 4230>>, <<4237, 4237>>, <<4253, 4253>>,
      <<4348, 4348>>, <<4957, 4959>>, <<5906, 5908>>, <<5938, 5939>>,
      <<5970, 5971>>, <<6002, 6003>>, <<6068, 6069>>, <<6071, 6077>>,
      <<6086, 6086>>, <<6089, 6099>>, <<6103, 6103>>, <<6109, 6109>>,
      <<6155, 6159>>, <<6211, 6211>>, <<6277, 6278>>, <<6313, 6313>>,
      <<6432, 6434>>, <<6439, 6440>>, <<6450, 6450>>, <<6457, 6459>>,
      <<6679, 6680>>, <<6683, 6683>>, <<6742, 6742>>, <<6744, 6750>>,
      <<6752, 6752>>, <<6754, 6754>>, <<6757, 6764>>, <<6771, 6780>>,
      <<6783, 6783>>, <<6823, 6823>>, <<6832, 6877>>, <<6880, 6891>>,
      <<6912, 6915>>, <<6964, 6964>>, <<6966, 6970>>, <<6972, 6972>>,
      <<6978, 6978>>, <<7019, 7027>>, <<7040, 7041>>, <<7074, 7077>>,
      <<7080, 7081>>, <<7083, 7085>>, <<7142, 7142>>, <<7144, 7145>>,
      <<7149, 7149>>, <<7151, 7153>>, <<7212, 7219>>, <<7222, 7223>>,
      <<7288, 7293>>, <<7376, 7378>>, <<7380, 7392>>, <<7394, 7400>>,
      <<7405, 7405>>, <<7412, 7412>>, <<7416, 7417>>, <<7468, 7530>>,
      <<7544, 7544>>, <<7579, 7679>>, <<8125, 8125>>, <<8127, 8129>>,
      <<8141, 8143>>, <<8157, 8159>>, <<8173, 8175>>, <<8189, 8190>>,
      <<8203, 8207>>, <<8216, 8217>>, <<8228, 8228>>, <<8231, 8231>>,
      <<8234, 8238>>, <<8288, 8292>>, <<8294, 8303>>, <<8305, 8305>>,
      <<8319, 8319>>, <<8336, 8348>>, <<8400, 8432>>, <<11388, 11389>>,
      <<11503, 11505>>, <<11631, 11631>>, <<11647, 11647>>, <<11744, 11775>>,
      <<11823, 11823>>, <<12293, 12293>>, <<12330, 12333>>, <<12337, 12341>>,
      <<12347, 12347>>, <<12441, 12446>>, <<12540, 12542>>, <<40981, 40981>>,
      <<42232, 42237>>, <<42508, 42508>>, <<42607, 42610>>, <<42612, 42621>>,
      <<42623, 42623>>, <<42652, 42655>>, <<42736, 42737>>, <<42752, 42785>>,
      <<42864, 42864>>, <<42888, 42890>>, <<42993, 42996>>, <<43000, 43001>>,
      <<43010, 43010>>, <<43014, 43014>>, <<43019, 43019>>, <<43045, 43046>>,
      <<43052, 43052>>, <<43204, 43205>>, <<43232, 43249>>, <<43263, 43263>>,
      <<43302, 43309>>, <<43335, 43345>>, <<43392, 43394>>, <<43443, 43443>>,
      <<43446, 43449>>, <<43452, 43453>>, <<43471, 43471>>, <<43493, 43494>>,
      <<43561, 43566>>, <<43569, 43570>>, <<43573, 43574>>, <<43587, 43587>>,
      <<43596, 43596>>, <<43632, 43632>>, <<43644, 43644>>, <<43696, 43696>>,
      <<43698, 43700>>, <<43703, 43704>>, <<43710, 43711>>, <<43713, 43713>>,
      <<43741, 43741>>, <<43756, 43757>>, <<43763, 43764>>, <<43766, 43766>>,
      <<43867, 43871>>, <<43881, 43883>>, <<44005, 44005>>, <<44008, 44008>>,
      <<44013, 44013>>, <<64286, 64286>>, <<64434, 64450>>, <<65024, 65039>>,
      <<65043, 65043>>, <<65056, 65071>>, <<65106, 65106>>, <<65109, 65109>>,
      <<65279, 65279>>, <<65287, 65287>>, <<65294, 65294>>, <<65306, 65306>>,
      <<65342, 65342>>, <<65344, 65344>>, <<65392, 65392>>, <<65438, 65439>>,
      <<65507, 65507>>, <<65529, 65531>>, <<66045, 66045>>, <<66272, 66272>>,
      <<66422, 66426>>, <<67456, 67461>>, <<67463, 67504>>, <<67506, 67514>>,
      <<68097, 68099>>, <<68101, 68102>>, <<68108, 68111>>, <<68152, 68154>>,
      <<68159, 68159>>, <<68325, 68326>>, <<68900, 68903>>, <<68942, 68942>>,
      <<68969, 68973>>, <<68975, 68975>>, <<69291, 69292>>, <<69317, 69317>>,
      <<69370, 69375>>, <<69446, 69456>>, <<69506, 69509>>, <<69633, 69633>>,
      <<69688, 69702>>, <<69744, 69744>>, <<69747, 69748>>, <<69759, 69761>>,
      <<69811, 69814>>, <<69817, 69818>>, <<69821, 69821>>, <<69826, 69826>>,
      <<69837, 69837>>, <<69888, 69890>>, <<69927, 69931>>, <<69933, 69940>>,
      <<70003, 70003>>, <<70016, 70017>>, <<70070, 70078>>, <<70089, 70092>>,
      <<70095, 70095>>, <<70191, 70193>>, <<70196, 70196>>, <<70198, 70199>>,
      <<70206, 70206>>, <<70209, 70209>>, <<70367, 70367>>, <<70371, 70378>>,
      <<70400, 70401>>, <<70459, 70460>>, <<70464, 70464>>, <<70502, 70508>>,
      <<70512, 70516>>, <<70587, 70592>>, <<70606, 70606>>, <<70608, 70608>>,
      <<70610, 70610>>, <<70625, 70626>>, <<70712, 70719>>, <<70722, 70724>>,
      <<70726, 70726>>, <<70750, 70750>>, <<70835, 70840>>, <<70842, 70842>>,
      <<70847, 70848>>, <<70850, 70851>>, <<71090, 71093>>, <<71100, 71101>>,
      <<71103, 71104>>, <<71132, 71133>>, <<71219, 71226>>, <<71229, 71229>>,
      <<71231, 71232>>, <<71339, 71339>>, <<71341, 71341>>, <<71344, 71349>>,
      <<71351, 71351>>, <<71453, 71453>>, <<71455, 71455>>, <<71458, 71461>>,
      <<71463, 71467>>, <<71727, 71735>>, <<71737, 71738>>, <<71995, 71996>>,
      <<71998, 71998>>, <<72003, 72003>>, <<72148, 72151>>, <<72154, 72155>>,
      <<72160, 72160>>, <<72193, 72202>>, <<72243, 72248>>, <<72251, 72254>>,
      <<72263, 72263>>, <<72273, 72278>>, <<72281, 72283>>, <<72330, 72342>>,
      <<72344, 72345>>, <<72544, 72544>>, <<72546, 72548>>, <<72550, 72550>>,
      <<72752, 72758>>, <<72760, 72765>>, <<72767, 72767>>, <<72850, 72871>>,
      <<72874, 72880>>, <<72882, 72883>>, <<72885, 72886>>, <<73009, 73014>>,
      <<73018, 73018>>, <<73020, 73021>>, <<73023, 73029>>, <<73031, 73031>>,
      <<73104, 73105>>, <<73109, 73109>>, <<73111, 73111>>, <<73177, 73177>>,
      <<73459, 73460>>, <<73472, 73473>>, <<73526, 73530>>, <<73536, 73536>>,
      <<73538, 73538>>, <<73562, 73562>>, <<78896, 78912>>, <<78919, 78933>>,
      <<90398, 90409>>, <<90413, 90415>>, <<92912, 92916>>, <<92976, 92982>>,
      <<92992, 92995>>, <<93504, 93506>>, <<93547, 93548>>, <<94031, 94031>>,
      <<94095, 94111>>, <<94176, 94177>>, <<94179, 94180>>, <<94194, 94195>>,
      <<110576, 110579>>, <<110581, 110587>>, <<110589, 110590>>,
      <<113821, 113822>>, <<113824, 113827>>, <<118528, 118573>>,
      <<118576, 118598>>, <<119143, 119145>>, <<119155, 119170>>,
      <<119173, 119179>>, <<119210, 119213>>, <<119362, 119364>>,
      <<121344, 121398>>, <<121403, 121452>>, <<121461, 121461>>,
      <<121476, 121476>>, <<121499, 121503>>, <<121505, 121519>>,
      <<122880, 122886>>, <<122888, 122904>>, <<122907, 122913>>,
      <<122915, 122916>>, <<122918, 122922>>, <<122928, 122989>>,
      <<123023, 123023>>, <<123184, 123197>>, <<123566, 123566>>,
      <<123628, 123631>>, <<124139, 124143>>, <<124398, 124399>>,
      <<124643, 124643>>, <<124646, 124646>>, <<124654, 124655>>,
      <<124661, 124661>>, <<124671, 124671>>, <<125136, 125142>>,
      <<125252, 125259>>, <<127995, 127999>>, <<917505, 917505>>,
      <<917536, 917631>>, <<917760, 917999>> }

InRanges(cp, ranges) == \E r \in ranges : cp >= r[1] /\ cp <= r[2]

Mapped(cp, r) == cp >= r[1] /\ cp <= r[2] /\ (cp - r[1]) % r[3] = 0

\* The simple mapping of one code point; below U+0080 only A..Z change.
Lower(cp) ==
    IF cp < 128 THEN (IF cp >= 65 /\ cp <= 90 THEN cp + 32 ELSE cp)
    ELSE LET block == CHOOSE b \in LowerCaseMapping :
                          cp >= b.first /\ cp <= b.last
             rules == {r \in block.rules : Mapped(cp, r)}
         IN  IF rules = {} THEN cp ELSE cp + (CHOOSE r \in rules : TRUE)[4]

\* Final_Sigma: going from position i in direction dir and skipping the
\* case-ignorable characters, the first character is a cased letter.
RECURSIVE CasedNext(_, _, _)
CasedNext(cps, i, dir) ==
    IF i < 1 \/ i > Len(cps) THEN FALSE
    ELSE IF InRanges(cps[i], CaseIgnorable) THEN CasedNext(cps, i + dir, dir)
    ELSE InRanges(cps[i], Cased)

\* The code units the code point at position i becomes.
LowerAt(cps, i) ==
    IF cps[i] = 304 THEN <<105, 775>>
    ELSE IF cps[i] = 931
    THEN IF CasedNext(cps, i - 1, -1) /\ ~CasedNext(cps, i + 1, 1)
         THEN <<962>> ELSE <<963>>
    ELSE CodeUnits(Lower(cps[i]))

RECURSIVE LowerFrom(_, _)
LowerFrom(cps, i) ==
    IF i > Len(cps) THEN <<>> ELSE LowerAt(cps, i) \o LowerFrom(cps, i + 1)

\* A string of ASCII characters has no surrogate pair and neither of the
\* two special mappings: every code unit is mapped on its own.
toLowerCase(s) ==
    IF \A i \in 1..Len(s) : s[i] < 128
    THEN [i \in 1..Len(s) |-> Lower(s[i])]
    ELSE LowerFrom(CodePoints(s), 1)

\* String.prototype.includes: t occurs in s at some position.
includes(s, t) ==
    \E i \in 0..(Len(s) - Len(t)) : SubSeq(s, i + 1, i + Len(t)) = t

\* The < of two strings: lexicographic by code unit, a proper prefix first.
RECURSIVE StrLt(_, _)
StrLt(s, t) ==
    IF t = <<>> THEN FALSE
    ELSE IF s = <<>> THEN TRUE
    ELSE IF s[1] # t[1] THEN s[1] < t[1]
    ELSE StrLt(Tail(s), Tail(t))

----------------------------------------------------------------------------
(* JavaScript numbers: [nan, v], v in thousandths.                         *)

Num(v) == [tag |-> "number", val |-> v]
NotNumeric == [tag |-> "string", val |-> 0]

\* Number(x): the number itself, NaN for a string that is not numeric.
Number(x) ==
    IF x.tag = "number" THEN [nan |-> FALSE, v |-> x.val]
    ELSE [nan |-> TRUE, v |-> 0]

\* a < b on numbers: false when either side is NaN.
NumLt(a, b) == ~a.nan /\ ~b.nan /\ a.v < b.v

\* a >= b on numbers: false when either side is NaN.
NumGe(a, b) == ~a.nan /\ ~b.nan /\ a.v >= b.v

\* a === b on two sgpa values (same type and same value).
StrictEquals(a, b) == a = b

----------------------------------------------------------------------------
(* AllStudentsTable: the pipeline each render runs.                        *)

\* A filter that forgets the name.
filtered_UsnOnly(students, term) ==
    SelectSeq(students,
              LAMBDA s : includes(toLowerCase(s.usn), toLowerCase(term)))

\* students.filter(...): the records whose usn or name includes the search
\* term, both sides lower-cased, in the order of students.
filtered(students, term) ==
    SelectSeq(students,
              LAMBDA s : \/ includes(toLowerCase(s.usn), toLowerCase(term))
                         \/ includes(toLowerCase(s.name), toLowerCase(term)))

\* A comparison of usn and name that forgets toLowerCase.
KeyLt_CaseSensitive(a, b, by) ==
    IF by = "sgpa"
    THEN NumLt(Number(a.sgpa), Number(b.sgpa))
    ELSE StrLt(a[by], b[by])

\* aVal < bVal after the coercion the sort key selects.
KeyLt(a, b, by) ==
    IF by = "sgpa"
    THEN NumLt(Number(a.sgpa), Number(b.sgpa))
    ELSE StrLt(toLowerCase(a[by]), toLowerCase(b[by]))

\* The comparator handed to Array.prototype.sort.
compareFn(a, b, by, ord) ==
    IF ord = "asc"
    THEN IF KeyLt(b, a, by) THEN 1 ELSE IF KeyLt(a, b, by) THEN -1 ELSE 0
    ELSE IF KeyLt(a, b, by) THEN 1 ELSE IF KeyLt(b, a, by) THEN -1 ELSE 0

\* Array.prototype.sort as V8 runs it (TimSort): the array is cut into runs,
\* a run shorter than the minimum run length is extended by binary
\* insertion, and the runs are merged, galloping when one run keeps winning.
\* An array shorter than 64 elements is a single run. The sort works on a
\* copy of the elements (the work array) and writes it back at the end.

\* comparefn(x, y): c holds the comparator of this sort as a function of the
\* two elements it is called with.
Compare(x, y, c) == c[x, y]

Min(a, b) == IF a < b THEN a ELSE b
Max(a, b) == IF a > b THEN a ELSE b

\* A loop of the sort: Step is its body and Done its exit test. The
\* iterations are nested as a balanced tree, so that the evaluation of a long
\* loop does not nest one evaluation for every iteration.
RECURSIVE Repeat(_, _, _, _, _)
Repeat(Step(_, _), Done(_, _), m, c, fuel) ==
    IF Done(m, c) THEN m
    ELSE IF fuel = 0 THEN Step(m, c)
    ELSE Repeat(Step, Done, Repeat(Step, Done, m, c, fuel - 1), c, fuel - 1)

RECURSIVE Loop(_, _, _, _)
Loop(Step(_, _), Done(_, _), m, c) ==
    LET r == Repeat(Step, Done, m, c, 6)
    IN  IF Done(r, c) THEN r ELSE Loop(Step, Done, r, c)

\* workArray[i], workArray[i] = x and Copy, on 0-based indices.
At(w, i) == w[i + 1]
Put(w, i, x) == [w EXCEPT ![i + 1] = x]
Copy(src, si, dst, di, n) ==
    SubSeq(dst, 1, di) \o SubSeq(src, si + 1, si + n)
        \o SubSeq(dst, di + n + 1, Len(dst))

Reverse(s) == SubSeq([k \in 1..Len(s) |-> s[Len(s) - k + 1]], 1, Len(s))

ReverseRange(w, from, to) ==
    SubSeq(w, 1, from) \o Reverse(SubSeq(w, from + 1, to))
        \o SubSeq(w, to + 1, Len(w))

\* CountAndMakeRun's loop: r.idx ends at the first element after the run.
\* r.broken is the exit test of the loop at r.idx, made once.
OutOfOrder(isDescending, order) ==
    (isDescending /\ order >= 0) \/ (~isDescending /\ order < 0)

RunAt(w, idx, high, isDescending, c) ==
    [w |-> w, idx |-> idx, high |-> high, isDescending |-> isDescending,
     broken |-> \/ idx >= high
                \/ OutOfOrder(isDescending,
                              Compare(At(w, idx), At(w, idx - 1), c))]

RunBroken(r, c) == r.broken

RunNext(r, c) == RunAt(r.w, r.idx + 1, r.high, r.isDescending, c)

RunEnd(w, idx, high, isDescending, c) ==
    Loop(RunNext, RunBroken, RunAt(w, idx, high, isDescending, c), c).idx

\* The run of length run starting at lowArg, reversed when it is strictly
\* descending.
MadeRun(w, lowArg, isDescending, run) ==
    [w |-> IF isDescending THEN ReverseRange(w, lowArg, lowArg + run) ELSE w,
     run |-> run]

CountRun(w, lowArg, high, isDescending, c) ==
    MadeRun(w, lowArg, isDescending,
            RunEnd(w, lowArg + 2, high, isDescending, c) - lowArg)

CountAndMakeRun(w, lowArg, high, c) ==
    IF lowArg + 1 = high THEN [w |-> w, run |-> 1]
    ELSE CountRun(w, lowArg, high,
                  Compare(At(w, lowArg + 1), At(w, lowArg), c) < 0, c)

\* BinaryInsertionSort's search: the slot of pivot in w[left, right).
RECURSIVE InsertionPoint(_, _, _, _, _)
InsertionPoint(w, pivot, left, right, c) ==
    IF left >= right THEN left
    ELSE LET mid == left + ((right - left) \div 2)
         IN  IF Compare(pivot, At(w, mid), c) < 0
             THEN InsertionPoint(w, pivot, left, mid, c)
             ELSE InsertionPoint(w, pivot, mid + 1, right, c)

\* BinaryInsertionSort's outer loop: w[low, start) is in order and w[start]
\* is inserted into it at left.
Inserted(r, c) == r.start >= r.high

InsertAt(r, pivot, left) ==
    [r EXCEPT !.w = SubSeq(r.w, 1, left) \o <<pivot>>
                        \o SubSeq(r.w, left + 1, r.start)
                        \o SubSeq(r.w, r.start + 2, Len(r.w)),
              !.start = @ + 1]

InsertNext(r, c) ==
    InsertAt(r, At(r.w, r.start),
             InsertionPoint(r.w, At(r.w, r.start), r.low, r.start, c))

BinaryInsertionSort(w, low, startArg, high, c) ==
    Loop(InsertNext, Inserted,
         [w |-> w, low |-> low, high |-> high,
          start |-> IF low = startArg THEN startArg + 1 ELSE startArg],
         c).w

\* The comparison of a gallop: GallopRight compares (key, element),
\* GallopLeft (element, key).
Order(a, key, at, keyFirst, c) ==
    Compare(IF keyFirst THEN key ELSE At(a, at),
            IF keyFirst THEN At(a, at) ELSE key, c)

\* The exponential search of a gallop: <<lastOfs, offset>> when it stops.
RECURSIVE GallopScan(_, _, _, _, _, _, _, _, _, _)
GallopScan(a, key, from, dir, keyFirst, whileNegative, maxOfs, lastOfs, offset, c) ==
    IF offset >= maxOfs THEN <<lastOfs, offset>>
    ELSE IF (Order(a, key, from + dir * offset, keyFirst, c) < 0) # whileNegative
    THEN <<lastOfs, offset>>
    ELSE GallopScan(a, key, from, dir, keyFirst, whileNegative, maxOfs,
                    offset, 2 * offset + 1, c)

\* The binary search that ends a gallop.
RECURSIVE GallopBisect(_, _, _, _, _, _, _)
GallopBisect(a, key, base, keyFirst, lastOfs, offset, c) ==
    IF lastOfs >= offset THEN offset
    ELSE LET m == lastOfs + ((offset - lastOfs) \div 2)
         IN  IF (Order(a, key, base + m, keyFirst, c) < 0) = keyFirst
             THEN GallopBisect(a, key, base, keyFirst, lastOfs, m, c)
             ELSE GallopBisect(a, key, base, keyFirst, m + 1, offset, c)

\* A gallop after its exponential search: scan is <<lastOfs, offset>>, both
\* counted from the hint, and the offsets are made relative to the base.
GallopScanned(a, key, base, hint, keyFirst, toRight, maxOfs, scan, c) ==
    GallopBisect(a, key, base, keyFirst,
                 (IF toRight THEN scan[1] + hint
                  ELSE hint - Min(scan[2], maxOfs)) + 1,
                 IF toRight THEN Min(scan[2], maxOfs) + hint
                 ELSE hint - scan[1],
                 c)

\* A gallop after its first comparison: to the right or to the left of the
\* hint, at most maxOfs elements away.
GallopToward(a, key, base, hint, keyFirst, firstNegative, toRight, maxOfs, c) ==
    GallopScanned(a, key, base, hint, keyFirst, toRight, maxOfs,
                  GallopScan(a, key, base + hint, IF toRight THEN 1 ELSE -1,
                             keyFirst, firstNegative, maxOfs, 0, 1, c),
                  c)

GallopHinted(a, key, base, length, hint, keyFirst, firstNegative, c) ==
    GallopToward(a, key, base, hint, keyFirst, firstNegative,
                 firstNegative # keyFirst,
                 IF firstNegative # keyFirst THEN length - hint ELSE hint + 1,
                 c)

Gallop(a, key, base, length, hint, keyFirst, c) ==
    GallopHinted(a, key, base, length, hint, keyFirst,
                 Order(a, key, base + hint, keyFirst, c) < 0, c)

GallopLeft(a, key, base, length, hint, c) ==
    Gallop(a, key, base, length, hint, FALSE, c)

GallopRight(a, key, base, length, hint, c) ==
    Gallop(a, key, base, length, hint, TRUE, c)

\* A merge in progress: w the work array, tmp the copied run, dest, ct
\* (cursorTemp) and cur (cursorB of MergeLow, cursorA of MergeHigh) the
\* cursors, la and lb what is left of the runs, mg the local minGallop, smg
\* sortState.minGallop, na and nb the wins, out the label reached.
Left(m, label) == [m EXCEPT !.out = label]

\* MergeLow: workArray[dest++] = workArray[cursorB++], --lengthB.
LowTakeB(m) ==
    [m EXCEPT !.w = Put(m.w, m.dest, At(m.w, m.cur)),
              !.dest = @ + 1, !.cur = @ + 1, !.lb = @ - 1]

\* MergeLow: workArray[dest++] = tempArray[cursorTemp++], --lengthA.
LowTakeA(m) ==
    [m EXCEPT !.w = Put(m.w, m.dest, At(m.tmp, m.ct)),
              !.dest = @ + 1, !.ct = @ + 1, !.la = @ - 1]

\* The exit tests of the loops of a merge: a label was reached, a run won
\* minGallop times in a row, no gallop won 7 elements.
Merged(m, c) == m.out # ""
PairwiseDone(m, c) == m.out # "" \/ m.na >= m.mg \/ m.nb >= m.mg
GallopingDone(m, c) == m.out # "" \/ ~(m.na >= 7 \/ m.nb >= 7)

\* MergeLow: one element at a time until a run wins minGallop times.
LowWonB(t) == IF t.lb = 0 THEN Left(t, "Succeed") ELSE t
LowWonA(t) == IF t.la = 1 THEN Left(t, "CopyB") ELSE t

LowPairwiseStep(m, c) ==
    IF Compare(At(m.w, m.cur), At(m.tmp, m.ct), c) < 0
    THEN LowWonB([LowTakeB(m) EXCEPT !.nb = @ + 1, !.na = 0])
    ELSE LowWonA([LowTakeA(m) EXCEPT !.na = @ + 1, !.nb = 0])

LowPairwise(m, c) == Loop(LowPairwiseStep, PairwiseDone, m, c)

\* MergeLow: one round of galloping. nofWinsB elements of run B are taken,
\* then one element of run A.
LowGallopedB(m, nb) ==
    [m EXCEPT !.nb = nb,
              !.w = Copy(m.w, m.cur, m.w, m.dest, nb),
              !.dest = @ + nb, !.cur = @ + nb, !.lb = @ - nb]

LowAfterGallopB(m) ==
    IF m.nb > 0 /\ m.lb = 0 THEN Left(m, "Succeed")
    ELSE LowWonA(LowTakeA(m))

LowGallopB(m, c) ==
    IF m.lb = 0 THEN Left(m, "Succeed")
    ELSE LowAfterGallopB(
             LowGallopedB(m, GallopLeft(m.w, At(m.tmp, m.ct), m.cur, m.lb,
                                        0, c)))

\* nofWinsA elements of run A are taken, then one element of run B.
LowGallopedA(m, na) ==
    [m EXCEPT !.na = na,
              !.w = Copy(m.tmp, m.ct, m.w, m.dest, na),
              !.dest = @ + na, !.ct = @ + na, !.la = @ - na]

LowAfterGallopA(m, c) ==
    IF m.na > 0 /\ m.la = 1 THEN Left(m, "CopyB")
    ELSE IF m.na > 0 /\ m.la = 0 THEN Left(m, "Succeed")
    ELSE LowGallopB(LowTakeB(m), c)

LowGallopA(m, c) ==
    LowAfterGallopA(
        LowGallopedA(m, GallopRight(m.tmp, At(m.w, m.cur), m.ct, m.la, 0, c)),
        c)

LowGallopingStep(m, c) ==
    LowGallopA([m EXCEPT !.mg = Max(1, m.mg - 1), !.smg = Max(1, m.mg - 1)],
               c)

\* MergeLow: galloping, at least once and as long as a gallop wins 7
\* elements.
LowGalloping(m, c) ==
    Loop(LowGallopingStep, GallopingDone, LowGallopingStep(m, c), c)

\* MergeLow's outer loop: pairwise, then galloping, then pairwise again.
AfterGalloping(g) ==
    IF g.out # "" THEN g ELSE [g EXCEPT !.mg = g.mg + 1, !.smg = g.mg + 1]

LowAfterPairwise(p, c) ==
    IF p.out # "" THEN p
    ELSE AfterGalloping(LowGalloping([p EXCEPT !.mg = @ + 1], c))

LowRound(m, c) ==
    LowAfterPairwise(LowPairwise([m EXCEPT !.na = 0, !.nb = 0], c), c)

LowRounds(m, c) == Loop(LowRound, Merged, m, c)

\* MergeLow: run A is copied out and the runs are merged from the left.
LowStarted(start, c) ==
    IF start.lb = 0 THEN Left(start, "Succeed")
    ELSE IF start.la = 1 THEN Left(start, "CopyB")
    ELSE LowRounds(start, c)

LowEnded(end) ==
    [w |-> IF end.out = "Succeed"
           THEN Copy(end.tmp, end.ct, end.w, end.dest, end.la)
           ELSE Put(Copy(end.w, end.cur, end.w, end.dest, end.lb),
                    end.dest + end.lb, At(end.tmp, end.ct)),
     mg |-> end.smg]

MergeLow(w, baseA, lengthA, baseB, lengthB, minGallop, c) ==
    LowEnded(
        LowStarted(
            LowTakeB([w |-> w, tmp |-> SubSeq(w, baseA + 1, baseA + lengthA),
                      base |-> baseA, dest |-> baseA, ct |-> 0,
                      cur |-> baseB, la |-> lengthA, lb |-> lengthB,
                      mg |-> minGallop, smg |-> minGallop,
                      na |-> 0, nb |-> 0, out |-> ""]),
            c))

\* MergeHigh: workArray[dest--] = workArray[cursorA--], --lengthA.
HighTakeA(m) ==
    [m EXCEPT !.w = Put(m.w, m.dest, At(m.w, m.cur)),
              !.dest = @ - 1, !.cur = @ - 1, !.la = @ - 1]

\* MergeHigh: workArray[dest--] = tempArray[cursorTemp--], --lengthB.
HighTakeB(m) ==
    [m EXCEPT !.w = Put(m.w, m.dest, At(m.tmp, m.ct)),
              !.dest = @ - 1, !.ct = @ - 1, !.lb = @ - 1]

HighWonA(t) == IF t.la = 0 THEN Left(t, "Succeed") ELSE t
HighWonB(t) == IF t.lb = 1 THEN Left(t, "CopyA") ELSE t

HighPairwiseStep(m, c) ==
    IF Compare(At(m.tmp, m.ct), At(m.w, m.cur), c) < 0
    THEN HighWonA([HighTakeA(m) EXCEPT !.na = @ + 1, !.nb = 0])
    ELSE HighWonB([HighTakeB(m) EXCEPT !.nb = @ + 1, !.na = 0])

HighPairwise(m, c) == Loop(HighPairwiseStep, PairwiseDone, m, c)

\* MergeHigh: one round of galloping. nofWinsB elements of run B are
\* taken, then one element of run A.
HighGallopedB(m, nb) ==
    [m EXCEPT !.nb = nb,
              !.w = Copy(m.tmp, m.ct - nb + 1, m.w, m.dest - nb + 1, nb),
              !.dest = @ - nb, !.ct = @ - nb, !.lb = @ - nb]

HighAfterGallopB(m) ==
    IF m.nb > 0 /\ m.lb = 1 THEN Left(m, "CopyA")
    ELSE IF m.nb > 0 /\ m.lb = 0 THEN Left(m, "Succeed")
    ELSE HighWonA(HighTakeA(m))

HighGallopB(m, c) ==
    IF m.lb = 1 THEN Left(m, "CopyA")
    ELSE HighAfterGallopB(
             HighGallopedB(m, m.lb - GallopLeft(m.tmp, At(m.w, m.cur), 0,
                                                m.lb, m.lb - 1, c)))

\* nofWinsA elements of run A are taken, then one element of run B.
HighGallopedA(m, na) ==
    [m EXCEPT !.na = na,
              !.w = Copy(m.w, m.cur - na + 1, m.w, m.dest - na + 1, na),
              !.dest = @ - na, !.cur = @ - na, !.la = @ - na]

HighAfterGallopA(m, c) ==
    IF m.na > 0 /\ m.la = 0 THEN Left(m, "Succeed")
    ELSE HighGallopB(HighTakeB(m), c)

HighGallopA(m, c) ==
    HighAfterGallopA(
        HighGallopedA(m, m.la - GallopRight(m.w, At(m.tmp, m.ct), m.base,
                                            m.la, m.la - 1, c)),
        c)

HighGallopingStep(m, c) ==
    HighGallopA([m EXCEPT !.mg = Max(1, m.mg - 1), !.smg = Max(1, m.mg - 1)],
                c)

HighGalloping(m, c) ==
    Loop(HighGallopingStep, GallopingDone, HighGallopingStep(m, c), c)

HighAfterPairwise(p, c) ==
    IF p.out # "" THEN p
    ELSE AfterGalloping(HighGalloping([p EXCEPT !.mg = @ + 1], c))

HighRound(m, c) ==
    HighAfterPairwise(HighPairwise([m EXCEPT !.na = 0, !.nb = 0], c), c)

HighRounds(m, c) == Loop(HighRound, Merged, m, c)

\* MergeHigh: run B is copied out and the runs are merged from the right.
HighStarted(start, c) ==
    IF start.la = 0 THEN Left(start, "Succeed")
    ELSE IF start.lb = 1 THEN Left(start, "CopyA")
    ELSE HighRounds(start, c)

HighEnded(end) ==
    [w |-> IF end.out = "Succeed"
           THEN Copy(end.tmp, 0, end.w, end.dest - (end.lb - 1), end.lb)
           ELSE Put(Copy(end.w, end.cur - end.la + 1, end.w,
                         end.dest - end.la + 1, end.la),
                    end.dest - end.la, At(end.tmp, end.ct)),
     mg |-> end.smg]

MergeHigh(w, baseA, lengthA, baseB, lengthB, minGallop, c) ==
    HighEnded(
        HighStarted(
            HighTakeA([w |-> w, tmp |-> SubSeq(w, baseB + 1, baseB + lengthB),
                       base |-> baseA, dest |-> baseB + lengthB - 1,
                       ct |-> lengthB - 1, cur |-> baseA + lengthA - 1,
                       la |-> lengthA, lb |-> lengthB,
                       mg |-> minGallop, smg |-> minGallop,
                       na |-> 0, nb |-> 0, out |-> ""]),
            c))

\* MergeAt: the runs i and i + 1 of the stack of pending runs are merged.
\* The stack without run i + 1, run i holding both.
MergedRuns(runs, i) ==
    LET joined == [runs EXCEPT ![i + 1] =
                       [base |-> runs[i + 1].base,
                        length |-> runs[i + 1].length + runs[i + 2].length]]
        slid == IF i = Len(runs) - 3
                THEN [joined EXCEPT ![i + 2] = runs[i + 3]]
                ELSE joined
    IN  SubSeq(slid, 1, Len(runs) - 1)

MergeEnded(st, i, merged) ==
    [st EXCEPT !.w = merged.w, !.runs = MergedRuns(st.runs, i),
               !.mg = merged.mg]

\* Run A without the elements already in place, and as much of run B.
MergeTrimmedB(st, i, baseA, lengthA, baseB, lengthB, c) ==
    IF lengthB = 0 THEN [st EXCEPT !.runs = MergedRuns(st.runs, i)]
    ELSE MergeEnded(st, i,
                    IF lengthA <= lengthB
                    THEN MergeLow(st.w, baseA, lengthA, baseB, lengthB,
                                  st.mg, c)
                    ELSE MergeHigh(st.w, baseA, lengthA, baseB, lengthB,
                                   st.mg, c))

MergeTrimmedA(st, i, baseA, lengthA, B, c) ==
    IF lengthA = 0 THEN [st EXCEPT !.runs = MergedRuns(st.runs, i)]
    ELSE MergeTrimmedB(st, i, baseA, lengthA, B.base,
                       GallopLeft(st.w, At(st.w, baseA + lengthA - 1),
                                  B.base, B.length, B.length - 1, c),
                       c)

MergeRuns(st, i, A, B, k, c) ==
    MergeTrimmedA(st, i, A.base + k, A.length - k, B, c)

MergeAt(st, i, c) ==
    MergeRuns(st, i, st.runs[i + 1], st.runs[i + 2],
              GallopRight(st.w, At(st.w, st.runs[i + 2].base),
                          st.runs[i + 1].base, st.runs[i + 1].length, 0, c),
              c)

\* The length of pending run n (0-based).
RunLen(st, n) == st.runs[n + 1].length

RunInvariantEstablished(st, n) ==
    n < 2 \/ RunLen(st, n - 2) > RunLen(st, n - 1) + RunLen(st, n)

\* MergeCollapse: the run to merge next, -1 when the invariants of the stack
\* of runs hold.
NextMerge(st, n) ==
    IF ~RunInvariantEstablished(st, n + 1) \/ ~RunInvariantEstablished(st, n)
    THEN (IF RunLen(st, n - 1) < RunLen(st, n + 1) THEN n - 1 ELSE n)
    ELSE IF RunLen(st, n) <= RunLen(st, n + 1) THEN n
    ELSE -1

RECURSIVE MergeCollapse(_, _)
MergeCollapse(st, c) ==
    IF Len(st.runs) <= 1 \/ NextMerge(st, Len(st.runs) - 2) = -1 THEN st
    ELSE MergeCollapse(MergeAt(st, NextMerge(st, Len(st.runs) - 2), c), c)

RECURSIVE MergeForceCollapse(_, _)
MergeForceCollapse(st, c) ==
    IF Len(st.runs) <= 1 THEN st
    ELSE LET n == Len(st.runs) - 2
         IN  MergeForceCollapse(
                 MergeAt(st, IF n > 0 /\ RunLen(st, n - 1) < RunLen(st, n + 1)
                             THEN n - 1 ELSE n, c), c)

\* ComputeMinRunLength: n itself below 64, else between 32 and 64.
RECURSIVE ComputeMinRunLength(_, _)
ComputeMinRunLength(n, r) ==
    IF n >= 64 THEN ComputeMinRunLength(n \div 2, IF n % 2 = 1 THEN 1 ELSE r)
    ELSE n + r

\* ArrayTimSortImpl's loop: the next run is made, pushed and collapsed.
Exhausted(st, c) == st.remaining = 0

\* The run of the given length is pushed on the stack of pending runs.
PushRun(st, w, length, c) ==
    MergeCollapse([st EXCEPT !.w = w,
                             !.runs = Append(@, [base |-> st.low,
                                                 length |-> length]),
                             !.low = @ + length,
                             !.remaining = @ - length],
                  c)

\* A run shorter than minRunLength is extended by binary insertion.
ExtendRun(st, made, c) ==
    IF made.run < st.minRunLength
    THEN PushRun(st,
                 BinaryInsertionSort(made.w, st.low, st.low + made.run,
                                     st.low + Min(st.minRunLength,
                                                  st.remaining), c),
                 Min(st.minRunLength, st.remaining), c)
    ELSE PushRun(st, made.w, made.run, c)

NextRun(st, c) ==
    ExtendRun(st, CountAndMakeRun(st.w, st.low, st.low + st.remaining, c), c)

\* ArrayTimSortImpl. st is the sort state: the work array w (a copy of the
\* elements), the stack of pending runs, minGallop mg, and the loop's low
\* and remaining.
ArrayTimSortImpl(w, c) ==
    MergeForceCollapse(
        Loop(NextRun, Exhausted,
             [w |-> w, runs |-> <<>>, mg |-> 7, low |-> 0,
              remaining |-> Len(w),
              minRunLength |-> ComputeMinRunLength(Len(w), 0)],
             c),
        c).w

\* a.sort(comparefn) with the comparator of the table.
ArraySort(a, by, ord) ==
    IF Len(a) < 2 THEN a
    ELSE ArrayTimSortImpl(
             SubSeq(a, 1, Len(a)),
             [x \in {a[i] : i \in 1..Len(a)}, y \in {a[i] : i \in 1..Len(a)}
                 |-> compareFn(x, y, by, ord)])

\* [...filtered].sort(comparator)
sorted(rows, by, ord) == ArraySort(rows, by, ord)

\* sorted.findIndex((s) => s.sgpa === sgpa): 0-based, -1 when there is none.
findIndex(rows, sgpa) ==
    LET hits == {j \in 1..Len(rows) : StrictEquals(rows[j].sgpa, sgpa)}
    IN  IF hits = {} THEN -1
        ELSE (CHOOSE j \in hits : \A k \in hits : j <= k) - 1

\* A ranking that forgets ties.
rankOf_Positional(rows, index) == index + 1

\* The rank of the row at 0-based index of the sorted view.
rankOf(rows, index) ==
    IF index > 0 /\ StrictEquals(rows[index].sgpa, rows[index + 1].sgpa)
    THEN findIndex(rows, rows[index + 1].sgpa) + 1
    ELSE index + 1

\* Tiers whose lower bounds are exclusive.
getSGPAColor_Exclusive(sgpa) ==
    IF NumLt(Number(Num(9000)), Number(sgpa)) THEN "sgpa-excellent"
    ELSE IF NumLt(Number(Num(8000)), Number(sgpa)) THEN "sgpa-great"
    ELSE IF NumLt(Number(Num(7000)), Number(sgpa)) THEN "sgpa-good"
    ELSE IF NumLt(Number(Num(6000)), Number(sgpa)) THEN "sgpa-average"
    ELSE "sgpa-low"

\* The tier class of a score; >= coerces its left side with Number.
getSGPAColor(sgpa) ==
    IF NumGe(Number(sgpa), Number(Num(9000))) THEN "sgpa-excellent"
    ELSE IF NumGe(Number(sgpa), Number(Num(8000))) THEN "sgpa-great"
    ELSE IF NumGe(Number(sgpa), Number(Num(7000))) THEN "sgpa-good"
    ELSE IF NumGe(Number(sgpa), Number(Num(6000))) THEN "sgpa-average"
    ELSE "sgpa-low"

\* sorted.map(...): every row of the sorted view with its rank.
rankedStudents(rows) ==
    [i \in 1..Len(rows) |->
        [usn |-> rows[i].usn, name |-> rows[i].name, sgpa |-> rows[i].sgpa,
         rank |-> rankOf(rows, i - 1)]]

\* The <tr> elements of the table body, top to bottom.
Rows(ranked) ==
    [i \in 1..Len(ranked) |->
        [usn |-> ranked[i].usn, name |-> ranked[i].name,
         sgpa |-> ranked[i].sgpa, rank |-> ranked[i].rank,
         color |-> getSGPAColor(ranked[i].sgpa)]]

\* The pipeline of a render: filtered, sorted, rankedStudents, the rows.
TableRows(students, term, by, ord) ==
    Rows(rankedStudents(sorted(filtered(students, term), by, ord)))

----------------------------------------------------------------------------
(* DistributionChart.                                                      *)

\* Math.max(...entries.map(([, v]) => v)) || 1
maxCount(entries) ==
    LET counts == {entries[i].count : i \in 1..Len(entries)}
        m == CHOOSE c \in counts : \A d \in counts : d <= c
    IN  IF m = 0 THEN 1 ELSE m

\* A width without the || 5.
barWidth_NoFloor(count, max) == <<count * 100, max>>

\* (count / maxCount) * 100 || 5, as the exact fraction <<num, den>>.
barWidth(count, max) ==
    IF count * 100 = 0 THEN <<5, 1>> ELSE <<count * 100, max>>

\* The bars drawn for a distribution, in the order of Object.entries;
\* none ("No distribution data.") for an empty map.
DistributionChart(entries) ==
    IF Len(entries) = 0 THEN <<>>
    ELSE [i \in 1..Len(entries) |->
            [label |-> entries[i].label, count |-> entries[i].count,
             width |-> barWidth(entries[i].count, maxCount(entries))]]

----------------------------------------------------------------------------
(* The inputs the model draws from.                                        *)

Student(usn, name, sgpa) == [usn |-> usn, name |-> name, sgpa |-> sgpa]

\* (usn, name) of the students of SpecTable: "1B" \u0130y, "1a" Al, "1A" al,
\* "2A" \u00C9b. Two usns and two names differ only in case; \u00C9 (201)
\* is lower-cased to \u00E9 (233) and \u0130 (304) to the two code units
\* i (105) and \u0307 (775).
People ==
    { <<<<49, 66>>, <<304, 121>>>>, <<<<49, 97>>, <<65, 108>>>>,
      <<<<49, 65>>, <<97, 108>>>>, <<<<50, 65>>, <<201, 98>>>> }

\* 9.0, 8.0 and a score that is not numeric.
ScoreSet == {Num(9000), Num(8000), NotNumeric}

\* The search terms typed: "", "\u00E9", "B", "1a".
QuerySet == { <<>>, <<233>>, <<66>>, <<49, 97>> }

Fields == {"usn", "name", "sgpa"}

\* Record lists of at most n students, no person twice.
StudentLists(n) ==
    UNION { { [i \in 1..k |-> Student(f[i][1][1], f[i][1][2], f[i][2])] :
                f \in { g \in [1..k -> People \X ScoreSet] :
                          \A i, j \in 1..k : i # j => g[i][1] # g[j][1] } } :
            k \in 0..n }

Labels == <<"9-10", "8-9", "7-8", "6-7", "5-6", "below 5">>

\* Distribution maps of at most n buckets with counts up to c or the large
\* count, as the entries Object.entries lists.
Distributions(n, c) ==
    UNION { { [i \in 1..k |-> [label |-> Labels[i], count |-> f[i]]] :
                f \in [1..k -> (0..c) \cup {LargeCount}] } :
            k \in 0..n }

\* A response body that parses to an object with a summary: the parts of it
\* the page computes with.
Body(rows, entries) ==
    [summary |-> <<[distribution |-> entries]>>, results |-> rows]

\* The response bodies of the backend in Spec.
\* "X1" Alice 9.5, "X2" Bob 9.5, "X3" Cara 7.2 with buckets 0, 4, 2.
Scenario ==
    Body(<< Student(<<88, 49>>, <<65, 108, 105, 99, 101>>, Num(9500)),
            Student(<<88, 50>>, <<66, 111, 98>>, Num(9500)),
            Student(<<88, 51>>, <<67, 97, 114, 97>>, Num(7200)) >>,
         << [label |-> "A", count |-> 0],
            [label |-> "B", count |-> 4],
            [label |-> "C", count |-> 2] >>)

\* Four students in usn order, "X1" Dan 8.0, "X2" Bob 9.0, "X3" Cara 8.0,
\* "X4" Eve 8.0, with buckets 1 and 100.
Batch ==
    Body(<< Student(<<88, 49>>, <<68, 97, 110>>, Num(8000)),
            Student(<<88, 50>>, <<66, 111, 98>>, Num(9000)),
            Student(<<88, 51>>, <<67, 97, 114, 97>>, Num(8000)),
            Student(<<88, 52>>, <<69, 118, 101>>, Num(8000)) >>,
         << [label |-> "8-9", count |-> 1],
            [label |-> "9-10", count |-> 100] >>)

\* A batch with a score the backend could not read.
Unread ==
    Body(<< Student(<<88, 49>>, <<68, 97, 110>>, Num(9000)),
            Student(<<88, 50>>, <<66, 111, 98>>, NotNumeric),
            Student(<<88, 51>>, <<67, 97, 114, 97>>, Num(8000)) >>,
         << [label |-> "8-9", count |-> 0] >>)

\* A batch in which no student was found.
Nobody == Body(<<>>, <<>>)

\* The body {}: an object without summary and without results. Every body
\* that is truthy and has no summary renders as it does.
NoSummary == [summary |-> <<>>, results |-> <<>>]

\* What res.json() resolves to: null for the body null (every falsy body
\* renders as it does), else the object. handleSubmit hands it to setData
\* unchecked.
Responses ==
    {<<>>, <<Scenario>>, <<Batch>>, <<Unread>>, <<Nobody>>, <<NoSummary>>}

Messages == {"Failed to fetch", "Backend error", "Unexpected token"}

\* The status of a /health body that is a string.
StatusText(s) == [kind |-> "string", text |-> s]

\* What res.json() of /health resolves to: null for the body null, else an
\* object with its status: "ok", "degraded", nothing (the key is missing or
\* null) or an object.
HealthBodies ==
    {<<>>} \cup {<<[status |-> s]>> :
                    s \in {StatusText("ok"), StatusText("degraded"),
                           [kind |-> "nullish", text |-> ""],
                           [kind |-> "object", text |-> ""]}}

----------------------------------------------------------------------------
(* Rendering.                                                              *)

\* data.results || []
Results(d) == IF d = <<>> THEN <<>> ELSE d[1].results

\* AllStudentsTable returns before its controls when there are no students.
TableShown(d) == d # <<>> /\ Len(Results(d)) > 0

\* summary.total_students of a data without summary: the render of
\* AnalyzeResultsPage throws a TypeError.
RenderThrows(d) == d # <<>> /\ d[1].summary = <<>>

\* What AnalyzeResultsPage renders from its state and its table's state.
Render(ld, err, d, by, ord, term) ==
    [page |-> TRUE,
     submitDisabled |-> ld,
     errorText |-> err,
     noData |-> d = <<>> /\ ~ld,
     chart |-> IF d = <<>> THEN <<>>
               ELSE DistributionChart(d[1].summary[1].distribution),
     controls |-> TableShown(d),
     rows |-> IF TableShown(d) THEN TableRows(Results(d), term, by, ord)
              ELSE <<>>]

\* Nothing of AnalyzeResultsPage is on the page: another route is shown, or
\* nothing at all.
NotRendered ==
    [page |-> FALSE, submitDisabled |-> FALSE, errorText |-> <<>>,
     noData |-> FALSE, chart |-> <<>>, controls |-> FALSE, rows |-> <<>>]

Event(op, field, term) == [op |-> op, field |-> field, term |-> term]

----------------------------------------------------------------------------
(* App, HealthPage, AnalyzeResultsPage and AllStudentsTable: state and     *)
(* handlers. While a page is not mounted it has no state; its variables    *)
(* then hold the values its next mount starts with. Dashboard has no       *)
(* state.                                                                  *)

\* The paths of the three routes.
Paths == {"/", "/health", "/analyze"}

\* <Route path="/analyze" element={<AnalyzeResultsPage />} />
Mounted == root /\ location = "/analyze"

\* The useState initial values of a freshly mounted AnalyzeResultsPage.
PageInit ==
    /\ loading = FALSE
    /\ error = <<>>
    /\ data = <<>>

\* The useState initial values of a freshly mounted AllStudentsTable.
TableInit ==
    /\ sortBy = "sgpa"
    /\ sortOrder = "desc"
    /\ searchTerm = <<>>

\* <Route path="/health" element={<HealthPage />} />
HealthMounted == root /\ location = "/health"

\* The useState initial values of a freshly mounted HealthPage.
HealthInit == [status |-> <<>>, loading |-> FALSE, error |-> <<>>]

\* HealthPage is not mounted and no fetchHealth is suspended.
HealthIdle ==
    /\ health = HealthInit
    /\ checks = <<>>

Standalone ==
    /\ distribution = <<>>
    /\ bars = <<>>
    /\ sgpaArg = Num(0)
    /\ sgpaColor = ""

\* An invocation of handleSubmit or of fetchHealth suspended at an await:
\* the promise it waits for ("never" for a fetch the network leaves without
\* an answer), and whether the page it was started from is still mounted.
Call(at, live) == [at |-> at, live |-> live]

\* The invocations go on without their page.
Orphaned(calls) ==
    SubSeq([i \in 1..Len(calls) |-> Call(calls[i].at, FALSE)], 1, Len(calls))

\* fetchHealth up to its first await: setLoading(true), setError(null).
HealthChecking(h) == [h EXCEPT !.loading = TRUE, !.error = <<>>]

\* The application is loaded at one of its routes. The effect of a mounted
\* HealthPage has called fetchHealth.
Init ==
    /\ root = TRUE
    /\ location \in Paths
    /\ health = IF HealthMounted THEN HealthChecking(HealthInit)
                ELSE HealthInit
    /\ checks = IF HealthMounted THEN <<Call("fetch", TRUE)>> ELSE <<>>
    /\ PageInit
    /\ pending = <<>>
    /\ TableInit
    /\ view = IF Mounted THEN Render(FALSE, <<>>, <<>>, "sgpa", "desc", <<>>)
              ELSE NotRendered
    /\ event = Event("load", "", <<>>)
    /\ Standalone

\* The submit button is on the page and is disabled while loading.
SubmitEnabled == Mounted /\ loading = FALSE

\* A page that hides the table (data && ...) without unmounting it, so the
\* state of the table survives a new analysis.
handleSubmit_KeepsTable ==
    /\ SubmitEnabled
    /\ Len(pending) < MaxInFlight
    /\ loading' = TRUE
    /\ error' = <<>>
    /\ data' = <<>>
    /\ pending' = Append(pending, Call("fetch", TRUE))
    /\ view' = Render(TRUE, <<>>, <<>>, sortBy, sortOrder, searchTerm)
    /\ event' = Event("submit", "", <<>>)
    /\ UNCHANGED <<root, location, sortBy, sortOrder, searchTerm,
                   distribution, bars, sgpaArg, sgpaColor, health, checks>>

\* handleSubmit up to its first await. setData(null) unmounts the table, so
\* the state of the table is discarded: its next mount starts afresh.
handleSubmit ==
    /\ SubmitEnabled
    /\ Len(pending) < MaxInFlight
    /\ loading' = TRUE
    /\ error' = <<>>
    /\ data' = <<>>
    /\ pending' = Append(pending, Call("fetch", TRUE))
    /\ sortBy' = "sgpa"
    /\ sortOrder' = "desc"
    /\ searchTerm' = <<>>
    /\ view' = Render(TRUE, <<>>, <<>>, "sgpa", "desc", <<>>)
    /\ event' = Event("submit", "", <<>>)
    /\ UNCHANGED <<root, location, distribution, bars, sgpaArg, sgpaColor,
                   health, checks>>

Without(seq, i) == SubSeq(seq, 1, i - 1) \o SubSeq(seq, i + 1, Len(seq))

\* The response arrives: handleSubmit goes on to res.json() or res.text(),
\* whether or not its page is still mounted.
FetchResolve(i, ok) ==
    /\ i \in DOMAIN pending
    /\ pending[i].at = "fetch"
    /\ pending' = [pending EXCEPT ![i].at = IF ok THEN "json" ELSE "text"]
    /\ event' = Event("response", "", <<>>)
    /\ UNCHANGED <<root, location, loading, error, data, sortBy, sortOrder,
                   searchTerm, view, distribution, bars, sgpaArg, sgpaColor,
                   health, checks>>

\* The backend accepts the request and never answers it. fetch is called
\* without a signal and without a timeout, so its promise stays pending and
\* handleSubmit stays suspended.
FetchStall(i) ==
    /\ i \in DOMAIN pending
    /\ pending[i].at = "fetch"
    /\ pending' = [pending EXCEPT ![i].at = "never"]
    /\ event' = Event("stall", "", <<>>)
    /\ UNCHANGED <<root, location, loading, error, data, sortBy, sortOrder,
                   searchTerm, view, distribution, bars, sgpaArg, sgpaColor,
                   health, checks>>

\* The end of an invocation whose page was unmounted: its setData, setError
\* and setLoading reach a component that is gone and change nothing.
Dropped(i) ==
    /\ pending' = Without(pending, i)
    /\ event' = Event("dropped", "", <<>>)
    /\ UNCHANGED <<root, location, loading, error, data, sortBy, sortOrder,
                   searchTerm, view, distribution, bars, sgpaArg, sgpaColor,
                   health, checks>>

\* catch and finally: setError(err.message || ...), setLoading(false).
Fail(i, msg) ==
    IF pending[i].live
    THEN /\ error' = <<msg>>
         /\ loading' = FALSE
         /\ pending' = Without(pending, i)
         /\ view' = Render(FALSE, <<msg>>, data, sortBy, sortOrder, searchTerm)
         /\ event' = Event("failed", "", <<>>)
         /\ UNCHANGED <<root, location, data, sortBy, sortOrder, searchTerm,
                        distribution, bars, sgpaArg, sgpaColor, health,
                        checks>>
    ELSE Dropped(i)

\* fetch rejects (the backend is unreachable).
FetchReject(i) ==
    /\ i \in DOMAIN pending
    /\ pending[i].at = "fetch"
    /\ Fail(i, "Failed to fetch")

\* A response that is not ok: its text is read and the error thrown.
TextSettle(i) ==
    /\ i \in DOMAIN pending
    /\ pending[i].at = "text"
    /\ Fail(i, "Backend error")

\* res.json() rejects (the body is not JSON).
JsonReject(i) ==
    /\ i \in DOMAIN pending
    /\ pending[i].at = "json"
    /\ Fail(i, "Unexpected token")

\* setData(json) and setLoading(false) with a json the page can render. The
\* table mounts with its initial state.
Loaded(i, json) ==
    /\ data' = json
    /\ loading' = FALSE
    /\ pending' = Without(pending, i)
    /\ view' = Render(FALSE, error, json, sortBy, sortOrder, searchTerm)
    /\ event' = Event("loaded", "", <<>>)
    /\ UNCHANGED <<root, location, error, sortBy, sortOrder, searchTerm,
                   distribution, bars, sgpaArg, sgpaColor, health, checks>>

\* A render throws: no error boundary catches it and React unmounts the
\* whole of App. Nothing is on the page any more and every state is
\* discarded.
AppUnmounted ==
    /\ root' = FALSE
    /\ health' = HealthInit
    /\ loading' = FALSE
    /\ error' = <<>>
    /\ data' = <<>>
    /\ sortBy' = "sgpa"
    /\ sortOrder' = "desc"
    /\ searchTerm' = <<>>
    /\ view' = NotRendered
    /\ event' = Event("crash", "", <<>>)
    /\ UNCHANGED <<location, distribution, bars, sgpaArg, sgpaColor>>

\* setData(json) and setLoading(false) with a json whose render throws.
Crashed(i) ==
    /\ AppUnmounted
    /\ pending' = Orphaned(Without(pending, i))
    /\ checks' = Orphaned(checks)

\* res.json() resolves: setData(json), then finally setLoading(false).
JsonResolve(i, json) ==
    /\ i \in DOMAIN pending
    /\ pending[i].at = "json"
    /\ IF ~pending[i].live THEN Dropped(i)
       ELSE IF RenderThrows(json) THEN Crashed(i)
       ELSE Loaded(i, json)

\* onChange of the search input: setSearchTerm(e.target.value).
setSearchTerm(term) ==
    /\ Mounted
    /\ TableShown(data)
    /\ searchTerm' = term
    /\ view' = Render(loading, error, data, sortBy, sortOrder, term)
    /\ event' = Event("search", "", term)
    /\ UNCHANGED <<root, location, loading, error, data, pending, sortBy,
                   sortOrder, distribution, bars, sgpaArg, sgpaColor, health,
                   checks>>

\* A handleSort that forgets setSortOrder('desc') for a new key.
nextSort_KeepsDirection(by, ord, field) ==
    IF by = field
    THEN <<by, IF ord = "asc" THEN "desc" ELSE "asc">>
    ELSE <<field, ord>>

\* The sort state after handleSort(field).
nextSort(by, ord, field) ==
    IF by = field
    THEN <<by, IF ord = "asc" THEN "desc" ELSE "asc">>
    ELSE <<field, "desc">>

\* onClick of a column header.
handleSort(field) ==
    /\ Mounted
    /\ TableShown(data)
    /\ sortBy' = nextSort(sortBy, sortOrder, field)[1]
    /\ sortOrder' = nextSort(sortBy, sortOrder, field)[2]
    /\ view' = Render(loading, error, data, sortBy', sortOrder', searchTerm)
    /\ event' = Event("sort", field, <<>>)
    /\ UNCHANGED <<root, location, loading, error, data, pending, searchTerm,
                   distribution, bars, sgpaArg, sgpaColor, health, checks>>

\* The variables a step of HealthPage leaves alone.
HealthOnly ==
    UNCHANGED <<root, location, loading, error, data, pending, sortBy,
                sortOrder, searchTerm, view, distribution, bars, sgpaArg,
                sgpaColor>>

\* onClick of the Refresh button, disabled while loading: fetchHealth up to
\* its await. The status of the last check stays.
fetchHealth ==
    /\ HealthMounted
    /\ health.loading = FALSE
    /\ Len(checks) < MaxInFlight
    /\ health' = HealthChecking(health)
    /\ checks' = Append(checks, Call("fetch", TRUE))
    /\ event' = Event("refresh", "", <<>>)
    /\ HealthOnly

\* The response is ok: fetchHealth goes on to res.json(), whether or not
\* its page is still mounted.
HealthFetchResolve(i) ==
    /\ i \in DOMAIN checks
    /\ checks[i].at = "fetch"
    /\ checks' = [checks EXCEPT ![i].at = "json"]
    /\ event' = Event("health response", "", <<>>)
    /\ UNCHANGED health
    /\ HealthOnly

\* The backend accepts the request and never answers it.
HealthFetchStall(i) ==
    /\ i \in DOMAIN checks
    /\ checks[i].at = "fetch"
    /\ checks' = [checks EXCEPT ![i].at = "never"]
    /\ event' = Event("health stall", "", <<>>)
    /\ UNCHANGED health
    /\ HealthOnly

\* The end of an invocation whose page was unmounted.
HealthDropped(i) ==
    /\ checks' = Without(checks, i)
    /\ event' = Event("health dropped", "", <<>>)
    /\ UNCHANGED health
    /\ HealthOnly

\* catch and finally: setError(err.message || ...), setStatus(null),
\* setLoading(false).
HealthFail(i, msg) ==
    IF checks[i].live
    THEN /\ health' = [status |-> <<>>, loading |-> FALSE, error |-> <<msg>>]
         /\ checks' = Without(checks, i)
         /\ event' = Event("health failed", "", <<>>)
         /\ HealthOnly
    ELSE HealthDropped(i)

\* fetch rejects (the backend is unreachable).
HealthFetchReject(i) ==
    /\ i \in DOMAIN checks
    /\ checks[i].at = "fetch"
    /\ HealthFail(i, "Failed to fetch")

\* A response that is not ok: throw new Error(`Status ${res.status}`).
HealthNotOk(i) ==
    /\ i \in DOMAIN checks
    /\ checks[i].at = "fetch"
    /\ HealthFail(i, "Status 500")

\* res.json() rejects (the body is not JSON).
HealthJsonReject(i) ==
    /\ i \in DOMAIN checks
    /\ checks[i].at = "json"
    /\ HealthFail(i, "Unexpected token")

\* data.status ?? 'unknown'
StatusOf(body) ==
    IF body[1].status.kind = "nullish" THEN StatusText("unknown")
    ELSE body[1].status

\* {!loading && status && (<span>{status}</span>)}: an object is not a
\* valid React child and the render of HealthPage throws.
HealthRenderThrows(h) ==
    ~h.loading /\ h.status # <<>> /\ h.status[1].kind = "object"

\* What setStatus(status) and setLoading(false) leave.
HealthChecked(h, status) == [h EXCEPT !.status = <<status>>, !.loading = FALSE]

\* setStatus(data.status ?? 'unknown'), setLoading(false) with a status the
\* page can render.
HealthLoaded(i, status) ==
    /\ health' = HealthChecked(health, status)
    /\ checks' = Without(checks, i)
    /\ event' = Event("health loaded", "", <<>>)
    /\ HealthOnly

\* setStatus(data.status ?? 'unknown'), setLoading(false) with a status
\* whose render throws.
HealthCrashed(i) ==
    /\ AppUnmounted
    /\ checks' = Orphaned(Without(checks, i))
    /\ pending' = Orphaned(pending)

\* res.json() resolves. data.status of the body null throws a TypeError,
\* which the catch of fetchHealth handles.
HealthJsonResolve(i, body) ==
    /\ i \in DOMAIN checks
    /\ checks[i].at = "json"
    /\ IF ~checks[i].live THEN HealthDropped(i)
       ELSE IF body = <<>> THEN HealthFail(i, "Cannot read properties of null")
       ELSE IF HealthRenderThrows(HealthChecked(health, StatusOf(body)))
       THEN HealthCrashed(i)
       ELSE HealthLoaded(i, StatusOf(body))

\* What a route change from one path to another does to HealthPage: it is
\* unmounted and its state discarded while its invocations of fetchHealth
\* go on, or it is mounted with its initial state and its effect calls
\* fetchHealth.
HealthRoute(from, to) ==
    IF to = "/health"
    THEN /\ Len(checks) < MaxInFlight
         /\ health' = HealthChecking(HealthInit)
         /\ checks' = Append(checks, Call("fetch", TRUE))
    ELSE IF from = "/health"
    THEN /\ health' = HealthInit
         /\ checks' = Orphaned(checks)
    ELSE UNCHANGED <<health, checks>>

\* A route change away from /analyze: AnalyzeResultsPage and its table are
\* unmounted and their state is discarded. The invocations of handleSubmit
\* that are suspended go on without a page.
Unmount(to) ==
    /\ Mounted
    /\ to # "/analyze"
    /\ location' = to
    /\ loading' = FALSE
    /\ error' = <<>>
    /\ data' = <<>>
    /\ sortBy' = "sgpa"
    /\ sortOrder' = "desc"
    /\ searchTerm' = <<>>
    /\ pending' = Orphaned(pending)
    /\ view' = NotRendered
    /\ event' = Event("leave", "", <<>>)
    /\ HealthRoute(location, to)
    /\ UNCHANGED <<root, distribution, bars, sgpaArg, sgpaColor>>

\* A route change to /analyze: a new AnalyzeResultsPage is mounted with its
\* initial state, whatever is still in flight.
Mount ==
    /\ root
    /\ location # "/analyze"
    /\ location' = "/analyze"
    /\ loading' = FALSE
    /\ error' = <<>>
    /\ data' = <<>>
    /\ sortBy' = "sgpa"
    /\ sortOrder' = "desc"
    /\ searchTerm' = <<>>
    /\ view' = Render(FALSE, <<>>, <<>>, "sgpa", "desc", <<>>)
    /\ event' = Event("mount", "", <<>>)
    /\ HealthRoute(location, "/analyze")
    /\ UNCHANGED <<root, pending, distribution, bars, sgpaArg, sgpaColor>>

\* A route change between Dashboard and HealthPage.
Browse(to) ==
    /\ root
    /\ location # "/analyze"
    /\ to \notin {"/analyze", location}
    /\ location' = to
    /\ event' = Event("browse", "", <<>>)
    /\ HealthRoute(location, to)
    /\ UNCHANGED <<root, loading, error, data, pending, sortBy, sortOrder,
                   searchTerm, view, distribution, bars, sgpaArg, sgpaColor>>

\* A click on a NavLink of the sidebar or of Dashboard.
navigate(to) ==
    \/ Unmount(to)
    \/ to = "/analyze" /\ Mount
    \/ Browse(to)

\* A promise a suspended handleSubmit awaits settles and handleSubmit goes
\* on.
Settle ==
    \E i \in 1..MaxInFlight :
        \/ \E ok \in BOOLEAN : FetchResolve(i, ok)
        \/ FetchReject(i)
        \/ TextSettle(i)
        \/ JsonReject(i)
        \/ \E json \in Responses : JsonResolve(i, json)

\* The network leaves a request without an answer.
Stall ==
    \E i \in 1..MaxInFlight :
        \/ FetchStall(i)
        \/ HealthFetchStall(i)

\* A promise a suspended fetchHealth awaits settles and fetchHealth goes on.
HealthSettle ==
    \E i \in 1..MaxInFlight :
        \/ HealthFetchResolve(i)
        \/ HealthNotOk(i)
        \/ HealthFetchReject(i)
        \/ HealthJsonReject(i)
        \/ \E body \in HealthBodies : HealthJsonResolve(i, body)

TableNext ==
    \/ \E term \in QuerySet : setSearchTerm(term)
    \/ \E field \in Fields : handleSort(field)

Next ==
    \/ fetchHealth
    \/ HealthSettle
    \/ handleSubmit
    \/ Settle
    \/ Stall
    \/ TableNext
    \/ \E to \in Paths : navigate(to)

Spec == Init /\ [][Next]_vars

\* The event loop runs the continuation of a promise that settles. Whether
\* the promise of fetch settles is up to the network: a request may also
\* stay without an answer for ever (Stall), and nothing in the code ends it.
FairSpec == Spec /\ WF_vars(Settle) /\ WF_vars(HealthSettle)

----------------------------------------------------------------------------
(* The table on its own: any record list, then header clicks and edits.    *)

InitTable ==
    /\ root = TRUE
    /\ location = "/analyze"
    /\ HealthIdle
    /\ loading = FALSE
    /\ error = <<>>
    /\ \E rs \in StudentLists(MaxStudents) : data = <<Body(rs, <<>>)>>
    /\ pending = <<>>
    /\ TableInit
    /\ view = Render(FALSE, <<>>, data, "sgpa", "desc", <<>>)
    /\ event = Event("loaded", "", <<>>)
    /\ Standalone

SpecTable == InitTable /\ [][TableNext]_vars

----------------------------------------------------------------------------
(* DistributionChart on its own.                                           *)

InitChart ==
    /\ root = TRUE
    /\ location = "/analyze"
    /\ HealthIdle
    /\ PageInit
    /\ pending = <<>>
    /\ TableInit
    /\ view = Render(FALSE, <<>>, <<>>, "sgpa", "desc", <<>>)
    /\ event = Event("load", "", <<>>)
    /\ distribution \in Distributions(MaxBuckets, MaxCount)
    /\ bars = <<>>
    /\ sgpaArg = Num(0)
    /\ sgpaColor = ""

renderChart ==
    /\ bars' = DistributionChart(distribution)
    /\ event' = Event("chart", "", <<>>)
    /\ UNCHANGED <<root, location, loading, error, data, pending, sortBy,
                   sortOrder, searchTerm, view, distribution, sgpaArg,
                   sgpaColor, health, checks>>

SpecChart == InitChart /\ [][renderChart]_vars

----------------------------------------------------------------------------
(* getSGPAColor on its own.                                                *)

InitTier ==
    /\ root = TRUE
    /\ location = "/analyze"
    /\ HealthIdle
    /\ PageInit
    /\ pending = <<>>
    /\ TableInit
    /\ view = Render(FALSE, <<>>, <<>>, "sgpa", "desc", <<>>)
    /\ event = Event("load", "", <<>>)
    /\ distribution = <<>>
    /\ bars = <<>>
    /\ sgpaArg \in {Num(v) : v \in TierLo..TierHi}
    /\ sgpaColor = ""

callGetSGPAColor ==
    /\ sgpaColor' = getSGPAColor(sgpaArg)
    /\ event' = Event("color", "", <<>>)
    /\ UNCHANGED <<root, location, loading, error, data, pending, sortBy,
                   sortOrder, searchTerm, view, distribution, bars, sgpaArg,
                   health, checks>>

SpecTier == InitTier /\ [][callGetSGPAColor]_vars

----------------------------------------------------------------------------
(* Vocabulary of the properties.                                           *)

IsNumber(sgpa) == sgpa.tag = "number"

\* The record a displayed row shows.
RowStudent(row) == Student(row.usn, row.name, row.sgpa)

Shown == [i \in 1..Len(view.rows) |-> RowStudent(view.rows[i])]

Ranks == [i \in 1..Len(view.rows) |-> view.rows[i].rank]

\* How many times x occurs in seq.
Occurrences(seq, x) == Cardinality({i \in 1..Len(seq) : seq[i] = x})

IsPermutation(s, t) ==
    /\ Len(s) = Len(t)
    /\ \A i \in 1..Len(s) : Occurrences(s, s[i]) = Occurrences(t, s[i])

\* s is t with some elements left out, the others in t's order.
IsSubsequence(s, t) ==
    \E at \in [1..Len(s) -> 1..Len(t)] :
        /\ \A i \in 1..Len(s) : s[i] = t[at[i]]
        /\ \A i, j \in 1..Len(s) : i < j => at[i] < at[j]

\* s is before t in lexicographic order.
LexLess(s, t) ==
    \E k \in 1..Len(t) :
        /\ \A i \in 1..(k - 1) : i <= Len(s) /\ s[i] = t[i]
        /\ k > Len(s) \/ s[k] < t[k]

\* q occurs in s once both are lower-cased.
ContainsIgnoringCase(s, q) ==
    LET ls == toLowerCase(s)
        lq == toLowerCase(q)
    IN  \E off \in 0..Len(ls) :
            /\ off + Len(lq) <= Len(ls)
            /\ \A k \in 1..Len(lq) : ls[off + k] = lq[k]

Matches(st, q) ==
    ContainsIgnoringCase(st.usn, q) \/ ContainsIgnoringCase(st.name, q)

\* The arrangements of the elements of seq.
Arrangements(seq) ==
    { [i \in 1..Len(seq) |-> seq[p[i]]] :
        p \in { q \in [1..Len(seq) -> 1..Len(seq)] :
                  \A i, j \in 1..Len(seq) : i # j => q[i] # q[j] } }

\* Every row without a numeric score is above (first) or below (last) every
\* row with one.
AtExtreme(rows, extreme) ==
    \A i, j \in 1..Len(rows) :
        (~IsNumber(rows[i].sgpa) /\ IsNumber(rows[j].sgpa)) =>
            IF extreme = "first" THEN i < j ELSE j < i

----------------------------------------------------------------------------
(* C1. Competition ranking. In a view sorted by sgpa whose scores are all  *)
(* numbers, the first row has rank 1; a later row whose score equals the   *)
(* score of the row above has rank (smallest index of a row with that      *)
(* score) + 1, any other row has rank index + 1; so every row has the rank *)
(* of the first row of its tie group, and a new score resumes at its       *)
(* position.                                                               *)
C1_CompetitionRanking ==
    (sortBy = "sgpa" /\ \A i \in 1..Len(Shown) : IsNumber(Shown[i].sgpa)) =>
        \A i \in 1..Len(Shown) :
            LET first == CHOOSE j \in 1..i :
                            /\ Shown[j].sgpa = Shown[i].sgpa
                            /\ \A k \in 1..(j - 1) : Shown[k].sgpa # Shown[i].sgpa
            IN  /\ i = 1 => Ranks[i] = 1
                /\ (i > 1 /\ Shown[i - 1].sgpa = Shown[i].sgpa) => Ranks[i] = first
                /\ (i > 1 /\ Shown[i - 1].sgpa # Shown[i].sgpa) => Ranks[i] = i
                /\ Ranks[i] = first
                /\ \A j \in 1..Len(Shown) :
                      (Shown[j].sgpa = Shown[i].sgpa) = (Ranks[j] = Ranks[i])

\* Two rows tied at the top share rank 1 and the third row has rank 3.
C1_Witness ==
    /\ sortBy = "sgpa"
    /\ Len(Shown) = 3
    /\ \A i \in 1..3 : IsNumber(Shown[i].sgpa)
    /\ Shown[1].sgpa = Shown[2].sgpa
    /\ Shown[2].sgpa # Shown[3].sgpa
    /\ Ranks = <<1, 1, 3>>

(* C2. In every view state the ranks of the displayed rows never decrease  *)
(* from top to bottom and the first displayed row has rank 1.              *)
C2_RanksNonDecreasing ==
    /\ Len(Ranks) > 0 => Ranks[1] = 1
    /\ \A i \in 1..(Len(Ranks) - 1) : Ranks[i] <= Ranks[i + 1]

(* C3. The table starts at (sgpa, desc), and so does every freshly mounted *)
(* table; a click on the active key flips the direction and keeps the key; *)
(* a click on another key makes it active, descending; the sort state is   *)
(* always one key of usn, name, sgpa and one direction.                    *)
C3_SortTransitions ==
    /\ sortBy = "sgpa" /\ sortOrder = "desc"
    /\ [](sortBy \in {"usn", "name", "sgpa"} /\ sortOrder \in {"asc", "desc"})
    /\ [][/\ event'.op = "loaded" => (sortBy' = "sgpa" /\ sortOrder' = "desc")
          /\ (event'.op = "sort" /\ event'.field = sortBy) =>
                /\ sortBy' = sortBy
                /\ sortOrder # sortOrder'
          /\ (event'.op = "sort" /\ event'.field # sortBy) =>
                /\ sortBy' = event'.field
                /\ sortOrder' = "desc"]_vars

\* Another key was chosen while the direction was ascending.
C3_Witness ==
    /\ event.op = "sort"
    /\ event.field = "name"
    /\ sortBy = "name"
    /\ sortOrder = "asc"
    /\ view.rows # <<>>

(* C4, as claimed. Every bar of a non-empty distribution of non-negative   *)
(* counts is between 5% and 100% wide.                                     *)
C4_WidthWithinFloor ==
    \A i \in 1..Len(bars) :
        /\ 5 * bars[i].width[2] <= bars[i].width[1]
        /\ bars[i].width[1] <= 100 * bars[i].width[2]

(* C4, amended. Every bar of a non-empty distribution of non-negative      *)
(* counts is more than 0% and at most 100% wide: a bucket of count 0 is    *)
(* drawn 5% wide, a bucket of a positive count is drawn count / maxCount   *)
(* * 100 percent wide, maxCount being the largest count, which is narrower *)
(* than 5% exactly when 20 * count < maxCount.                             *)
C4_WidthAmended ==
    \A i \in 1..Len(bars) :
        LET num == bars[i].width[1]
            den == bars[i].width[2]
            largest == CHOOSE c \in {bars[j].count : j \in 1..Len(bars)} :
                          \A j \in 1..Len(bars) : bars[j].count <= c
        IN  /\ bars[i].count = distribution[i].count
            /\ den > 0
            /\ 0 < num
            /\ num <= 100 * den
            /\ bars[i].count = 0 => num = 5 * den
            /\ bars[i].count > 0 => num * largest = 100 * bars[i].count * den
            /\ (num < 5 * den) = (0 < bars[i].count /\ 20 * bars[i].count < largest)

\* A chart with an empty bucket at 5% and a fuller bucket narrower than it.
C4_Witness ==
    \E i, j \in 1..Len(bars) :
        /\ bars[i].count = 0
        /\ bars[i].width = <<5, 1>>
        /\ bars[j].count > 0
        /\ bars[j].width[1] < 5 * bars[j].width[2]

(* C5. Under the score sort the rows whose score is not a number are at    *)
(* one extreme of the view, the same one whatever the order of the input   *)
(* records.                                                                *)
C5_NaNAtOneExtreme ==
    sortBy = "sgpa" =>
        \E extreme \in {"first", "last"} :
            \A input \in Arrangements(filtered(Results(data), searchTerm)) :
                AtExtreme(sorted(input, sortBy, sortOrder), extreme)

(* C6. The sorted view is a permutation of the filtered view, and every    *)
(* row compares <= 0 with the row below it under the comparator of the     *)
(* sort state: sgpa numerically, usn and name as lower-cased strings,      *)
(* descending being ascending with the sign reversed.                      *)
C6_SortedPermutation ==
    /\ IsPermutation(Shown, filtered(Results(data), searchTerm))
    /\ \A i \in 1..(Len(Shown) - 1) :
          LET x == Shown[i]
              y == Shown[i + 1]
              xKey == IF sortBy = "sgpa" THEN <<x.sgpa.val>>
                      ELSE toLowerCase(x[sortBy])
              yKey == IF sortBy = "sgpa" THEN <<y.sgpa.val>>
                      ELSE toLowerCase(y[sortBy])
              comparable == sortBy = "sgpa" => (IsNumber(x.sgpa) /\ IsNumber(y.sgpa))
          IN  /\ compareFn(x, y, sortBy, sortOrder) <= 0
              /\ compareFn(x, y, sortBy, "desc") = 0 - compareFn(x, y, sortBy, "asc")
              /\ (comparable /\ sortOrder = "asc") => ~LexLess(yKey, xKey)
              /\ (comparable /\ sortOrder = "desc") => ~LexLess(xKey, yKey)

\* Three rows in ascending order of name, the input being in another order.
C6_Witness ==
    /\ sortBy = "name"
    /\ sortOrder = "asc"
    /\ Len(Shown) = 3
    /\ Shown # filtered(Results(data), searchTerm)
    /\ compareFn(Shown[1], Shown[2], sortBy, sortOrder) = 0
    /\ compareFn(Shown[2], Shown[3], sortBy, sortOrder) < 0

(* C7. The filtered view is a subsequence of the record list in its order; *)
(* it holds exactly the records whose usn or name contains the query, case *)
(* ignored; the empty query keeps every record. The displayed rows are the *)
(* records of the filtered view.                                           *)
C7_SearchFilter ==
    LET R == Results(data)
        F == filtered(R, searchTerm)
    IN  /\ IsSubsequence(F, R)
        /\ \A i \in 1..Len(R) :
              Matches(R[i], searchTerm) = (Occurrences(F, R[i]) > 0)
        /\ \A i \in 1..Len(R) : Occurrences(F, R[i]) <= Occurrences(R, R[i])
        /\ searchTerm = <<>> => F = R
        /\ {Shown[i] : i \in 1..Len(Shown)} = {F[i] : i \in 1..Len(F)}

\* A query in upper case that keeps some records, by usn or by name, and
\* drops others.
C7_Witness ==
    /\ searchTerm = <<66>>
    /\ Len(Results(data)) = 3
    /\ Len(Shown) = 2
    /\ \E i \in 1..2 : ~ContainsIgnoringCase(Shown[i].usn, searchTerm)
    /\ \E i \in 1..2 : ~ContainsIgnoringCase(Shown[i].name, searchTerm)

(* C8. A new analysis resets the sort key, the direction and the query to  *)
(* (sgpa, desc, ""), and no other event does: a query edit leaves key and  *)
(* direction, a header click leaves the query, and every other event       *)
(* leaves all three.                                                       *)
C8_ResetOnlyOnAnalysis ==
    [][/\ event'.op = "submit" =>
             (sortBy' = "sgpa" /\ sortOrder' = "desc" /\ searchTerm' = <<>>)
       /\ event'.op = "search" =>
             (sortBy' = sortBy /\ sortOrder' = sortOrder
              /\ searchTerm' = event'.term)
       /\ event'.op = "sort" => searchTerm' = searchTerm
       /\ event'.op \notin {"submit", "search", "sort"} =>
             (sortBy' = sortBy /\ sortOrder' = sortOrder
              /\ searchTerm' = searchTerm)]_vars

(* C8, amended. A new analysis and a route change away from the page reset *)
(* the sort key, the direction and the query to (sgpa, desc, ""), and no   *)
(* other event does: a query edit leaves key and direction, a header click *)
(* leaves the query, and every other event leaves all three.               *)
C8_ResetOnAnalysisOrLeave ==
    [][/\ event'.op \in {"submit", "leave"} =>
             (sortBy' = "sgpa" /\ sortOrder' = "desc" /\ searchTerm' = <<>>)
       /\ event'.op = "search" =>
             (sortBy' = sortBy /\ sortOrder' = sortOrder
              /\ searchTerm' = event'.term)
       /\ event'.op = "sort" => searchTerm' = searchTerm
       /\ event'.op \notin {"submit", "leave", "search", "sort"} =>
             (sortBy' = sortBy /\ sortOrder' = sortOrder
              /\ searchTerm' = searchTerm)]_vars

\* A query was typed into a table sorted by name, ascending.
C8_Witness ==
    /\ event.op = "search"
    /\ searchTerm = <<66>>
    /\ sortBy = "name"
    /\ sortOrder = "asc"

(* C9. getSGPAColor of a numeric score is excellent from 9.0, great from   *)
(* 8.0 to below 9.0, good from 7.0 to below 8.0, average from 6.0 to below *)
(* 7.0 and low below 6.0: one of five tiers, each lower bound inclusive.   *)
C9_TierClassification ==
    sgpaColor # "" =>
        LET v == sgpaArg.val
        IN  /\ sgpaColor \in {"sgpa-excellent", "sgpa-great", "sgpa-good",
                              "sgpa-average", "sgpa-low"}
            /\ (sgpaColor = "sgpa-excellent") = (v >= 9000)
            /\ (sgpaColor = "sgpa-great") = (v >= 8000 /\ v < 9000)
            /\ (sgpaColor = "sgpa-good") = (v >= 7000 /\ v < 8000)
            /\ (sgpaColor = "sgpa-average") = (v >= 6000 /\ v < 7000)
            /\ (sgpaColor = "sgpa-low") = (v < 6000)

\* 6.0 itself is average.
C9_Witness == sgpaArg = Num(6000) /\ sgpaColor = "sgpa-average"

(* C10. data and error are never both set; while loading both are null and *)
(* no dataset is shown; the submit button is disabled exactly while        *)
(* loading, so that at most one request is in flight; a request that ends  *)
(* leaves the page with loading false and exactly one of data (success)    *)
(* and error (failure) set; every started request ends.                    *)
C10_RequestLifecycle ==
    /\ [](~(data # <<>> /\ error # <<>>))
    /\ [](loading => (data = <<>> /\ error = <<>> /\ view.rows = <<>>
                      /\ view.chart = <<>> /\ ~view.controls))
    /\ [](Mounted => view.submitDisabled = loading)
    /\ [](Len(pending) <= 1)
    /\ [][(Mounted' /\ Len(pending') < Len(pending)) =>
            (~loading' /\ (data' # <<>>) # (error' # <<>>))]_vars
    /\ (loading ~> ~loading)

============================================================================
